---- MODULE Spec2Model ----
(***************************************************************************)
(* A model of Frameify's compositing pipeline: text truncation and the     *)
(* two-column track listing (utils/canvas-utils, designs/album-1), colour  *)
(* palette extraction (utils/color-utils), the triple box blur and the     *)
(* gradient background constructors (core/background-modes).               *)
(*                                                                         *)
(* Every pixel length of the model is counted in half pixels, so that the  *)
(* column width (sectionWidth - 50) / 2 of the track listing is exact.     *)
(* JavaScript arrays are 0-based; the sequences of the model are 1-based,  *)
(* element k of an array is element k + 1 of its sequence.                 *)
(***************************************************************************)
EXTENDS Integers, Sequences, FiniteSets, TLC

VARIABLES
    \* truncateText(ctx, text, maxWidth): the call's arguments and result
    tpc, ctx, text, maxWidth, truncResult,
    \* extractColorPalette(imagePath, numColors): the decoded image, the
    \* requested count, the candidates, diverseColors as the scan and as the
    \* backfill leave it, and the result
    ppc, image, numColors, colorsWithLightness, diverseColors, backfilledColors,
    palette,
    \* BlurredAlbumCoverBackground.applyBlur(imageData, radius): the
    \* arguments, the box radii, the two working buffers, the buffer between
    \* the horizontal and the vertical pass, the loop index and the result;
    \* which buffers the variables source and target refer to, and the reads
    \* and writes of the passes made so far, in order
    bpc, imageData, radius, boxes, source, target, temp, pass, output,
    sourceBuf, targetBuf, blurLog,
    \* Album1Design.calculateTrackListingBoundary and drawTrackListing: the
    \* drawing context, the arguments, the boundary returned and the
    \* fillText calls made, in order
    kpc, trackCtx, tracks, startX, startY, sectionWidth, lineHeight,
    trackBoundary, fillTexts,
    \* new GradientTopBackground(colors) and the other gradient variants:
    \* the class and argument of the construction, the instance made and
    \* the error thrown
    gpc, ctorKind, ctorArgs, background, thrown,
    \* rgbToHex(rgb) and hexToRgb(hex): the argument of the first
    \* conversion (the other one null) and the values returned
    hpc, rgbIn, hexIn, hexOut, rgbOut,
    \* render(ctx, width, height) of a background: the canvas size, the
    \* instance, the context drawn on, the offscreen context of the blurred
    \* cover and the error thrown
    rpc, canvasWidth, canvasHeight, renderer, renderCtx, offscreenCtx, renderThrown,
    \* a Frameify instance: its four fields, the last of the background
    \* calls made on it and the number of builder calls; and its generate or
    \* generateBuffer: which of the two, the render context, the background
    \* rendered, the poster canvas, the steps taken, the file written, the
    \* buffer returned and the error thrown
    fpc, design, backgroundMode, useAutoBackground, autoBackgroundOptions,
    lastModeCall, built, entry, renderContext, chosen, posterCtx, steps,
    outputFile, returned, generateError,
    \* renderContent of a song design: the design, the song data, the index
    \* of the element its next statement draws, the outcome of each load
    \* made, the painting calls made on ctx, the console.warn calls and the
    \* error it rejects with
    cpc, contentDesign, songData, element, loads, contentCalls, warnings,
    contentError

textVars == <<tpc, ctx, text, maxWidth, truncResult>>
paletteVars == <<ppc, image, numColors, colorsWithLightness, diverseColors,
                 backfilledColors, palette>>

blurVars == <<bpc, imageData, radius, boxes, source, target, temp, pass, output,
              sourceBuf, targetBuf, blurLog>>

trackVars == <<kpc, trackCtx, tracks, startX, startY, sectionWidth, lineHeight,
               trackBoundary, fillTexts>>

backgroundVars == <<gpc, ctorKind, ctorArgs, background, thrown>>

hexVars == <<hpc, rgbIn, hexIn, hexOut, rgbOut>>

renderVars == <<rpc, canvasWidth, canvasHeight, renderer, renderCtx, offscreenCtx,
                renderThrown>>

frameifyVars == <<fpc, design, backgroundMode, useAutoBackground,
                  autoBackgroundOptions, lastModeCall, built, entry, renderContext,
                  chosen, posterCtx, steps, outputFile, returned, generateError>>

contentVars == <<cpc, contentDesign, songData, element, loads, contentCalls,
                 warnings, contentError>>

vars == <<textVars, paletteVars, blurVars, trackVars, backgroundVars, hexVars,
          renderVars, frameifyVars, contentVars>>

Min(a, b) == IF a <= b THEN a ELSE b
Max(a, b) == IF a >= b THEN a ELSE b

\* A number that need not be whole (a gradient position, a scale, a blur
\* radius): the fraction n / d.
Fraction(n, d) == [n |-> n, d |-> d]

(***************************************************************************)
(* Text measurement and truncation                                         *)
(***************************************************************************)

\* Longest random text the truncation is tried on.
MaxLen == 4
\* Widest budget (in half pixels) the truncation is tried against.
MaxBudget == 14

MonoFont == "mono"
TrackFont == "bold 52px Ubuntu"

Ellipsis == <<".", ".", ".">>

\* The advance width of one character in the context's font, in half
\* pixels: every character alike in the monospace font, narrow, medium and
\* wide glyphs in the proportional one.
CharWidth(font, c) ==
    IF font = MonoFont THEN 2
    ELSE CASE c \in {"i", "l", ".", " ", "1"} -> 1
           [] c \in {"W", "M"} -> 3
           [] OTHER -> 2

\* ctx.measureText(s).width: the sum of the advance widths.
RECURSIVE Measure(_, _)
Measure(c, s) ==
    IF s = <<>> THEN 0
    ELSE CharWidth(c.font, Head(s)) + Measure(c, Tail(s))

\* s.slice(0, -1)
DropLast(s) == SubSeq(s, 1, Len(s) - 1)

\* Mutant: the loop stops one character early (length > 1).
RECURSIVE TruncateLoopKeepsOne(_, _, _)
TruncateLoopKeepsOne(c, truncated, mw) ==
    IF Measure(c, truncated \o Ellipsis) > mw /\ Len(truncated) > 1
    THEN TruncateLoopKeepsOne(c, DropLast(truncated), mw)
    ELSE truncated

\* The while loop of truncateText: drop the last character until the text
\* with the ellipsis fits or nothing is left.
RECURSIVE TruncateLoop(_, _, _)
TruncateLoop(c, truncated, mw) ==
    IF Measure(c, truncated \o Ellipsis) > mw /\ Len(truncated) > 0
    THEN TruncateLoop(c, DropLast(truncated), mw)
    ELSE truncated

\* Mutant: a text that fits exactly is truncated all the same (< for <=).
truncateTextStrict(c, t, mw) ==
    IF Measure(c, t) < mw THEN t
    ELSE TruncateLoop(c, t, mw) \o Ellipsis

\* Mutant: one character more than needed is dropped.
truncateTextDropsOneMore(c, t, mw) ==
    IF Measure(c, t) <= mw THEN t
    ELSE DropLast(TruncateLoop(c, t, mw)) \o Ellipsis

truncateText(c, t, mw) ==
    IF Measure(c, t) <= mw THEN t
    ELSE TruncateLoop(c, t, mw) \o Ellipsis

TheQuickBrownFox ==
    <<"T", "h", "e", " ", "Q", "u", "i", "c", "k", " ",
      "B", "r", "o", "w", "n", " ", "F", "o", "x">>
TheQuick == SubSeq(TheQuickBrownFox, 1, 9)

Alphabet == {"i", "W", "."}

RECURSIVE SeqsUpTo(_, _)
SeqsUpTo(S, n) ==
    IF n = 0 THEN {<<>>}
    ELSE LET shorter == SeqsUpTo(S, n - 1)
         IN  shorter \cup {Append(s, x) : s \in {t \in shorter : Len(t) = n - 1}, x \in S}

Texts == SeqsUpTo(Alphabet, MaxLen) \cup {TheQuickBrownFox}
Budgets == (-1 .. MaxBudget) \cup {Measure([font |-> MonoFont], TheQuick \o Ellipsis)}

TextIdle ==
    /\ tpc = "idle"
    /\ ctx = [font |-> MonoFont]
    /\ text = <<>>
    /\ maxWidth = 0
    /\ truncResult = <<>>

TextInit ==
    /\ tpc = "ready"
    /\ ctx \in {[font |-> MonoFont], [font |-> TrackFont]}
    /\ text \in Texts
    /\ maxWidth \in Budgets
    /\ truncResult = <<>>

\* A call of truncateText with the drawn arguments.
TruncateText ==
    /\ tpc = "ready"
    /\ truncResult' = truncateText(ctx, text, maxWidth)
    /\ tpc' = "done"
    /\ UNCHANGED <<ctx, text, maxWidth>>

(***************************************************************************)
(* Colour palette extraction                                               *)
(***************************************************************************)

\* Most samples an image of the model has (its pixel count is
\* 10 * (samples - 1) + 1).
MaxSamples == 3
\* Largest palette size asked for.
MaxCount == 3

\* Raw RGBA pixels of the images tried: three greys of the mid range whose
\* quantized lightness is one step (32/3) apart, two colours of equal
\* quantized lightness one of which quantizes to 256, a near-black, a
\* near-white and a mostly transparent pixel.
PixelA == <<96, 96, 128, 255>>
PixelB == <<96, 96, 96, 255>>
PixelC == <<96, 128, 128, 255>>
PixelX == <<255, 255, 0, 255>>
PixelY == <<224, 160, 128, 255>>
PixelDark == <<10, 10, 10, 255>>
PixelWhite == <<250, 240, 236, 255>>
PixelClear == <<96, 128, 128, 100>>
SamplePixels ==
    {PixelA, PixelB, PixelC, PixelX, PixelY, PixelDark, PixelWhite, PixelClear}
\* The pixels between two samples: a colour no sample has.
PixelFiller == <<200, 0, 0, 255>>

\* imageData.data of an image of one row whose pixels 0, 10, 20, ... are
\* the given ones, as the flat RGBA byte array.
ImageOf(samples) ==
    LET n == 10 * (Len(samples) - 1) + 1
    IN  [width |-> n, height |-> 1,
         data |-> [k \in 1 .. 4 * n |->
                    LET p == (k - 1) \div 4
                        ch == ((k - 1) % 4) + 1
                    IN  IF p % 10 = 0 THEN samples[(p \div 10) + 1][ch]
                        ELSE PixelFiller[ch]]]

\* Math.round(v / 32) * 32 for a byte v (Math.round rounds halves up).
Quantize(v) == ((2 * v + 32) \div 64) * 32

\* colorCounts.set(colorKey, (colorCounts.get(colorKey) || 0) + 1) on a Map,
\* kept as the sequence of its entries in insertion order.
MapIncrement(counts, key) ==
    IF \E k \in 1 .. Len(counts) : counts[k].key = key
    THEN [k \in 1 .. Len(counts) |->
            IF counts[k].key = key
            THEN [key |-> key, n |-> counts[k].n + 1]
            ELSE counts[k]]
    ELSE Append(counts, [key |-> key, n |-> 1])

\* The sampling loop: for (i = 0; i < pixels.length; i += 40), i being the
\* 0-based byte offset.
RECURSIVE CountColors(_, _, _)
CountColors(pixels, i, counts) ==
    IF i >= Len(pixels) THEN counts
    ELSE LET r == pixels[i + 1]
             g == pixels[i + 2]
             b == pixels[i + 3]
             a == pixels[i + 4]
         IN  IF \/ a < 128
                \/ (r < 20 /\ g < 20 /\ b < 20)
                \/ (r > 235 /\ g > 235 /\ b > 235)
             THEN CountColors(pixels, i + 40, counts)
             ELSE CountColors(pixels, i + 40,
                      MapIncrement(counts, <<Quantize(r), Quantize(g), Quantize(b)>>))

\* Array.prototype.sort with the comparator (a, b) => key(b) - key(a): a
\* stable sort, larger keys first, equal keys in their order of arrival.
\* keys[k] is the key of s[k]; the elements are inserted one by one, each
\* before the first element of a smaller key.
RECURSIVE InsertDesc(_, _)
InsertDesc(sorted, x) ==
    IF sorted = <<>> THEN <<x>>
    ELSE IF x.key > Head(sorted).key THEN <<x>> \o sorted
    ELSE <<Head(sorted)>> \o InsertDesc(Tail(sorted), x)

RECURSIVE SortKeyed(_)
SortKeyed(s) ==
    IF s = <<>> THEN <<>>
    ELSE InsertDesc(SortKeyed(DropLast(s)), s[Len(s)])

SortDesc(s, keys) ==
    LET keyed == SortKeyed([k \in 1 .. Len(s) |-> [key |-> keys[k], val |-> s[k]]])
    IN  [k \in 1 .. Len(s) |-> keyed[k].val]

\* arr.slice(0, n)
SliceTo(arr, n) == SubSeq(arr, 1, Min(Len(arr), n))

\* entries.sort((a, b) => b[1] - a[1])
SortByCount(entries) == SortDesc(entries, [k \in 1 .. Len(entries) |-> entries[k].n])

\* The numColors * 3 most frequent quantized colours, each with its
\* lightness. The lightness field holds r + g + b, three times the code's
\* (r + g + b) / 3, to stay in the integers.
CandidateColors(pixels, n) ==
    LET entries == SliceTo(SortByCount(CountColors(pixels, 0, <<>>)), n * 3)
    IN  [k \in 1 .. Len(entries) |->
            [r |-> entries[k].key[1], g |-> entries[k].key[2], b |-> entries[k].key[3],
             lightness |-> entries[k].key[1] + entries[k].key[2] + entries[k].key[3]]]

Abs(x) == IF x < 0 THEN -x ELSE x

\* Mutant: a minimum lightness difference of 10 instead of 20.
IsDifferentBy10(color, diverse) ==
    \A k \in 1 .. Len(diverse) : Abs(color.lightness - diverse[k].lightness) > 3 * 10

\* Math.abs(color.lightness - existing.lightness) > 20, on the tripled
\* lightness.
IsDifferent(color, diverse) ==
    \A k \in 1 .. Len(diverse) : Abs(color.lightness - diverse[k].lightness) > 3 * 20

\* The diversity loop. The first colour is pushed and the loop continues
\* without the length check; every later colour is pushed if different from
\* all accepted ones, and the loop breaks once numColors are accepted.
RECURSIVE DiverseScan(_, _, _, _)
DiverseScan(colors, k, diverse, n) ==
    IF k > Len(colors) THEN diverse
    ELSE IF Len(diverse) = 0
    THEN DiverseScan(colors, k + 1, Append(diverse, colors[k]), n)
    ELSE LET next == IF IsDifferent(colors[k], diverse)
                     THEN Append(diverse, colors[k])
                     ELSE diverse
         IN  IF Len(next) >= n THEN next
             ELSE DiverseScan(colors, k + 1, next, n)

SameRgb(c, d) == c.r = d.r /\ c.g = d.g /\ c.b = d.b

\* Mutant: the backfill keeps the diversity rule.
RECURSIVE BackfillKeepsDiversity(_, _, _, _)
BackfillKeepsDiversity(colors, k, diverse, n) ==
    IF k > Len(colors) THEN diverse
    ELSE IF /\ ~ \E j \in 1 .. Len(diverse) : SameRgb(diverse[j], colors[k])
            /\ IsDifferent(colors[k], diverse)
    THEN LET next == Append(diverse, colors[k])
         IN  IF Len(next) >= n THEN next
             ELSE BackfillKeepsDiversity(colors, k + 1, next, n)
    ELSE BackfillKeepsDiversity(colors, k + 1, diverse, n)

\* The backfill loop: the candidates not yet accepted, most frequent first,
\* until numColors are reached.
RECURSIVE Backfill(_, _, _, _)
Backfill(colors, k, diverse, n) ==
    IF k > Len(colors) THEN diverse
    ELSE IF ~ \E j \in 1 .. Len(diverse) : SameRgb(diverse[j], colors[k])
    THEN LET next == Append(diverse, colors[k])
         IN  IF Len(next) >= n THEN next
             ELSE Backfill(colors, k + 1, next, n)
    ELSE Backfill(colors, k + 1, diverse, n)

\* diverseColors after the scan and the backfill (before the final sort).
SelectColors(colors, n) ==
    LET scanned == DiverseScan(colors, 1, <<>>, n)
    IN  IF Len(scanned) < n THEN Backfill(colors, 1, scanned, n) ELSE scanned

HexDigits == <<"0", "1", "2", "3", "4", "5", "6", "7", "8", "9",
               "a", "b", "c", "d", "e", "f">>

\* Number.prototype.toString(16) of a natural number.
RECURSIVE ToString16(_)
ToString16(v) ==
    IF v < 16 THEN <<HexDigits[v + 1]>>
    ELSE ToString16(v \div 16) \o <<HexDigits[(v % 16) + 1]>>

\* s.padStart(2, '0')
PadStart2(s) == IF Len(s) < 2 THEN <<"0">> \o s ELSE s

\* Mutant: the channel is printed without padStart.
HexByteUnpadded(v) == ToString16(Min(255, Max(0, v)))

\* Math.min(255, Math.max(0, v)).toString(16).padStart(2, '0')
HexByte(v) == PadStart2(ToString16(Min(255, Max(0, v))))

\* `#${r}${g}${b}`
rgbToHex(rgb) == <<"#">> \o HexByte(rgb.r) \o HexByte(rgb.g) \o HexByte(rgb.b)

\* The value of a hexadecimal digit, either case (the regular expression of
\* hexToRgb is case-insensitive), or -1 for any other character.
HexValue(c) ==
    IF \E v \in 1 .. 16 : HexDigits[v] = c
    THEN (CHOOSE v \in 1 .. 16 : HexDigits[v] = c) - 1
    ELSE CASE c = "A" -> 10 [] c = "B" -> 11 [] c = "C" -> 12
           [] c = "D" -> 13 [] c = "E" -> 14 [] c = "F" -> 15
           [] OTHER -> -1

Null == [null |-> TRUE]

\* hexToRgb: /^#?([a-f\d]{2})([a-f\d]{2})([a-f\d]{2})$/i and parseInt(_, 16)
\* of each group, null when the string does not match.
hexToRgb(hex) ==
    LET body == IF hex # <<>> /\ Head(hex) = "#" THEN Tail(hex) ELSE hex
    IN  IF Len(body) = 6 /\ \A k \in 1 .. 6 : HexValue(body[k]) >= 0
        THEN [r |-> 16 * HexValue(body[1]) + HexValue(body[2]),
              g |-> 16 * HexValue(body[3]) + HexValue(body[4]),
              b |-> 16 * HexValue(body[5]) + HexValue(body[6])]
        ELSE Null

\* diverseColors.sort((a, b) => b.lightness - a.lightness)
SortByLightness(colors) ==
    SortDesc(colors, [k \in 1 .. Len(colors) |-> colors[k].lightness])

\* The palette returned for the selected colours: sorted lightest first,
\* each as a hex string.
ToPalette(colors) ==
    LET sorted == SortByLightness(colors)
    IN  [k \in 1 .. Len(sorted) |-> rgbToHex(sorted[k])]

PaletteIdle ==
    /\ ppc = "idle"
    /\ image = [width |-> 0, height |-> 0, data |-> <<>>]
    /\ numColors = 0
    /\ colorsWithLightness = <<>>
    /\ diverseColors = <<>>
    /\ backfilledColors = <<>>
    /\ palette = <<>>

PaletteInit ==
    /\ ppc = "ready"
    /\ image \in {ImageOf(s) : s \in SeqsUpTo(SamplePixels, MaxSamples) \ {<<>>}}
    /\ numColors \in 0 .. MaxCount
    /\ colorsWithLightness = <<>>
    /\ diverseColors = <<>>
    /\ backfilledColors = <<>>
    /\ palette = <<>>

\* A call of extractColorPalette on the decoded image.
ExtractColorPalette ==
    /\ ppc = "ready"
    /\ colorsWithLightness' = CandidateColors(image.data, numColors)
    /\ diverseColors' = DiverseScan(colorsWithLightness', 1, <<>>, numColors)
    /\ backfilledColors' = SelectColors(colorsWithLightness', numColors)
    /\ palette' = ToPalette(backfilledColors')
    /\ ppc' = "done"
    /\ UNCHANGED <<image, numColors>>

(***************************************************************************)
(* The triple box blur                                                     *)
(***************************************************************************)

\* Largest width and height of a blurred buffer.
MaxDim == 3
\* Largest blur radius (sigma) asked for.
MaxSigma == 2

\* A JavaScript number of the blur: an integer, or NaN (what arithmetic on
\* the undefined of an out-of-range typed-array read gives).
Num(v) == [nan |-> FALSE, v |-> v]
NaN == [nan |-> TRUE, v |-> 0]
Add(a, b) == IF a.nan \/ b.nan THEN NaN ELSE Num(a.v + b.v)
Sub(a, b) == IF a.nan \/ b.nan THEN NaN ELSE Num(a.v - b.v)
Times(k, a) == IF a.nan THEN NaN ELSE Num(k * a.v)

\* input[idx] of a Uint8ClampedArray, idx 0-based: undefined out of range.
Rd(arr, idx) ==
    IF idx >= 0 /\ idx < Len(arr) THEN Num(arr[idx + 1]) ELSE NaN

\* The four channels of pixel p: input[p * 4], ..., input[p * 4 + 3].
Rd4(arr, p) == [c \in 0 .. 3 |-> Rd(arr, p * 4 + c)]
Add4(a, b) == [c \in 0 .. 3 |-> Add(a[c], b[c])]
Sub4(a, b) == [c \in 0 .. 3 |-> Sub(a[c], b[c])]
Times4(k, a) == [c \in 0 .. 3 |-> Times(k, a[c])]

\* The byte a Uint8ClampedArray stores for val * iarr, iarr = 1 / (r + r + 1):
\* 0 for NaN, else the quotient rounded to the nearest integer and clamped
\* to 0..255. The quotient of an integer by the odd r + r + 1 is never
\* halfway between two integers.
ToUint8Clamped(val, r) ==
    IF val.nan THEN 0
    ELSE Min(255, Max(0, (2 * val.v + (2 * r + 1)) \div (2 * (2 * r + 1))))

\* output[p * 4 + c] = val[c] * iarr for the four channels; a write out of
\* range is ignored.
Wr4(arr, p, val, r) ==
    [k \in 1 .. Len(arr) |->
        IF (k - 1) \div 4 = p THEN ToUint8Clamped(val[(k - 1) % 4], r)
        ELSE arr[k]]

\* The sliding window along one line of pixels: the pixels start,
\* start + step, ..., count of them (a row: step 1, count width; a column:
\* step width, count height). st holds val, ti, li, ri and the output.

\* for (j = 0; j < radius; j++) val += input[ti + j * step]
RECURSIVE LineLoop1(_, _, _, _, _, _)
LineLoop1(input, val, ti, step, j, r) ==
    IF j < r
    THEN LineLoop1(input, Add4(val, Rd4(input, ti + j * step)), ti, step, j + 1, r)
    ELSE val

\* for (j = 0; j <= radius; j++) { val += input[ri] - fv; output[ti] = val * iarr; ri++; ti++ }
RECURSIVE LineLoop2(_, _, _, _, _, _)
LineLoop2(input, st, fv, step, j, r) ==
    IF j <= r
    THEN LET val == Add4(st.val, Sub4(Rd4(input, st.ri), fv))
         IN  LineLoop2(input,
                 [st EXCEPT !.val = val, !.out = Wr4(st.out, st.ti, val, r),
                            !.ri = st.ri + step, !.ti = st.ti + step],
                 fv, step, j + 1, r)
    ELSE st

\* for (j = radius + 1; j < count - radius; j++)
\*     { val += input[ri] - input[li]; output[ti] = val * iarr; ri++; li++; ti++ }
RECURSIVE LineLoop3(_, _, _, _, _, _)
LineLoop3(input, st, step, j, count, r) ==
    IF j < count - r
    THEN LET val == Add4(st.val, Sub4(Rd4(input, st.ri), Rd4(input, st.li)))
         IN  LineLoop3(input,
                 [st EXCEPT !.val = val, !.out = Wr4(st.out, st.ti, val, r),
                            !.ri = st.ri + step, !.li = st.li + step,
                            !.ti = st.ti + step],
                 step, j + 1, count, r)
    ELSE st

\* for (j = count - radius; j < count; j++)
\*     { val += lv - input[li]; output[ti] = val * iarr; li++; ti++ }
RECURSIVE LineLoop4(_, _, _, _, _, _, _)
LineLoop4(input, st, lv, step, j, count, r) ==
    IF j < count
    THEN LET val == Add4(st.val, Sub4(lv, Rd4(input, st.li)))
         IN  LineLoop4(input,
                 [st EXCEPT !.val = val, !.out = Wr4(st.out, st.ti, val, r),
                            !.li = st.li + step, !.ti = st.ti + step],
                 lv, step, j + 1, count, r)
    ELSE st

\* The body of the outer loop of boxBlurHorizontal (one row) and of
\* boxBlurVertical (one column): returns the output array.
BlurLine(input, out, start, step, count, r) ==
    LET ti == start
        fv == Rd4(input, ti)
        lv == Rd4(input, ti + step * (count - 1))
        v0 == LineLoop1(input, Times4(r + 1, fv), ti, step, 0, r)
        s0 == [val |-> v0, ti |-> ti, li |-> ti, ri |-> ti + r * step, out |-> out]
        s2 == LineLoop2(input, s0, fv, step, 0, r)
        s3 == LineLoop3(input, s2, step, r + 1, count, r)
        s4 == LineLoop4(input, s3, lv, step, count - r, count, r)
    IN  s4.out

\* for (y = 0; y < height; y++) { ti = y * width; ... }
RECURSIVE boxBlurHorizontalRows(_, _, _, _, _, _)
boxBlurHorizontalRows(input, out, width, height, r, y) ==
    IF y < height
    THEN boxBlurHorizontalRows(input, BlurLine(input, out, y * width, 1, width, r),
                               width, height, r, y + 1)
    ELSE out

boxBlurHorizontal(input, out, width, height, r) ==
    boxBlurHorizontalRows(input, out, width, height, r, 0)

\* for (x = 0; x < width; x++) { ti = x; ... }
RECURSIVE boxBlurVerticalColumns(_, _, _, _, _, _)
boxBlurVerticalColumns(input, out, width, height, r, x) ==
    IF x < width
    THEN boxBlurVerticalColumns(input, BlurLine(input, out, x, width, height, r),
                                width, height, r, x + 1)
    ELSE out

boxBlurVertical(input, out, width, height, r) ==
    boxBlurVerticalColumns(input, out, width, height, r, 0)

\* new Uint8ClampedArray(n): n zero bytes.
Zeros(n) == [k \in 1 .. n |-> 0]

\* Math.floor(Math.sqrt((12 * sigma * sigma / n) + 1)) for the fraction
\* sigma: the largest w with w * w <= 12 * sigma^2 / n + 1.
FloorWIdeal(sigma, n) ==
    CHOOSE w \in 0 .. 4 * (Abs(sigma.n) \div sigma.d + 1) + 2 :
        /\ w * w * n * sigma.d * sigma.d
               <= 12 * sigma.n * sigma.n + n * sigma.d * sigma.d
        /\ (w + 1) * (w + 1) * n * sigma.d * sigma.d
               > 12 * sigma.n * sigma.n + n * sigma.d * sigma.d

\* if (wl % 2 === 0) wl--
LowerWidth(sigma, n) ==
    IF FloorWIdeal(sigma, n) % 2 = 0 THEN FloorWIdeal(sigma, n) - 1
    ELSE FloorWIdeal(sigma, n)

\* Math.round(mIdeal): the floor of mIdeal + 1/2, taken on the fraction
\* with the signs of numerator and denominator flipped.
RoundedM(sigma, n) ==
    LET wl == LowerWidth(sigma, n)
        num == (n * wl * wl + 4 * n * wl + 3 * n) * sigma.d * sigma.d
                   - 12 * sigma.n * sigma.n
        den == (4 * wl + 4) * sigma.d * sigma.d
    IN  (2 * num + den) \div (2 * den)

\* Mutant: the narrower box after the wider ones.
boxesForGaussianWiderFirst(sigma, n) ==
    LET wl == LowerWidth(sigma, n)
        wu == wl + 2
        m == RoundedM(sigma, n)
    IN  [k \in 1 .. n |-> ((IF k - 1 < n - m THEN wu ELSE wl) - 1) \div 2]

\* boxesForGaussian(sigma, n) for a fraction sigma.
boxesForGaussian(sigma, n) ==
    LET wl == LowerWidth(sigma, n)
        wu == wl + 2
        m == RoundedM(sigma, n)
    IN  [k \in 1 .. n |-> ((IF k - 1 < m THEN wl ELSE wu) - 1) \div 2]

\* The radii asked for: the whole ones from -1 up, and three between the
\* whole ones (a half, a third over one, a quarter over one).
Sigmas ==
    {Fraction(k, 1) : k \in -1 .. MaxSigma}
    \cup {Fraction(1, 2), Fraction(4, 3), Fraction(5, 4)}

UniformColours == {<<200, 100, 50, 255>>, <<255, 255, 255, 255>>, <<7, 0, 9, 128>>}
Background == <<0, 0, 0, 255>>
Bright == <<255, 255, 255, 255>>

\* A buffer all of whose pixels hold the colour c.
UniformBuffer(w, h, c) ==
    [width |-> w, height |-> h, data |-> [k \in 1 .. 4 * w * h |-> c[((k - 1) % 4) + 1]]]

\* A dark buffer with one bright pixel at column px, row py.
OneBrightPixel(w, h, px, py) ==
    [width |-> w, height |-> h,
     data |-> [k \in 1 .. 4 * w * h |->
                 IF (k - 1) \div 4 = py * w + px THEN Bright[((k - 1) % 4) + 1]
                 ELSE Background[((k - 1) % 4) + 1]]]

BlurInputs ==
    {UniformBuffer(w, h, c) : w \in 1 .. MaxDim, h \in 1 .. MaxDim, c \in UniformColours}
    \cup UNION {{OneBrightPixel(w, h, px, py) : px \in 0 .. w - 1, py \in 0 .. h - 1} :
                   w \in 1 .. MaxDim, h \in 1 .. MaxDim}

BlurIdle ==
    /\ bpc = "idle"
    /\ imageData = [width |-> 0, height |-> 0, data |-> <<>>]
    /\ radius = Fraction(0, 1)
    /\ boxes = <<>>
    /\ source = <<>>
    /\ target = <<>>
    /\ temp = <<>>
    /\ pass = 0
    /\ output = [width |-> 0, height |-> 0, data |-> <<>>]
    /\ sourceBuf = Null
    /\ targetBuf = Null
    /\ blurLog = <<>>

BlurInit ==
    /\ bpc = "ready"
    /\ imageData \in BlurInputs
    /\ radius \in Sigmas
    /\ boxes = <<>>
    /\ source = <<>>
    /\ target = <<>>
    /\ temp = <<>>
    /\ pass = 0
    /\ output = [width |-> 0, height |-> 0, data |-> <<>>]
    /\ sourceBuf = Null
    /\ targetBuf = Null
    /\ blurLog = <<>>

\* The buffers of applyBlur, each named by the expression that allocates
\* it: the buffer of the ImageData passed in, the k-th made by a `new`.
Buffer(name, k) == [buffer |-> name, made |-> k]
DataBuffer == Buffer("imageData.data", 0)

\* Mutant: source is the buffer of the input itself.
SourceBufferAliased == DataBuffer

\* let source = new Uint8ClampedArray(data): a buffer of its own holding a
\* copy of the bytes of data.
SourceBuffer == Buffer("new Uint8ClampedArray(data)", 0)

\* let target = new Uint8ClampedArray(data.length)
TargetBuffer == Buffer("new Uint8ClampedArray(data.length)", 0)

\* const temp = new Uint8ClampedArray(source.length), of the k-th boxBlur
TempBuffer(k) == Buffer("new Uint8ClampedArray(source.length)", k)

\* applyBlur up to its loop: the box radii and the two working buffers.
ApplyBlurStart ==
    /\ bpc = "ready"
    /\ boxes' = boxesForGaussian(radius, 3)
    /\ source' = imageData.data
    /\ sourceBuf' = SourceBuffer
    /\ target' = Zeros(Len(imageData.data))
    /\ targetBuf' = TargetBuffer
    /\ pass' = 0
    /\ bpc' = "loop"
    /\ UNCHANGED <<imageData, radius, temp, output, blurLog>>

\* One iteration of the loop of applyBlur: boxBlur(source, target, ...),
\* that is the horizontal pass into a fresh temp and the vertical pass from
\* temp into target, then the swap of source and target.
ApplyBlurPass ==
    /\ bpc = "loop"
    /\ pass < 3
    /\ LET r == boxes[pass + 1]
           w == imageData.width
           h == imageData.height
       IN  /\ temp' = boxBlurHorizontal(source, Zeros(Len(source)), w, h, r)
           /\ source' = boxBlurVertical(temp', target, w, h, r)
           /\ target' = source
    /\ blurLog' = blurLog \o
           <<[pass |-> pass + 1, step |-> "horizontal",
              reads |-> sourceBuf, read |-> source,
              writes |-> TempBuffer(pass + 1), written |-> temp'],
             [pass |-> pass + 1, step |-> "vertical",
              reads |-> TempBuffer(pass + 1), read |-> temp',
              writes |-> targetBuf, written |-> source']>>
    \* a write to the buffer of the input is a write to the input
    /\ imageData' = IF targetBuf = DataBuffer
                    THEN [imageData EXCEPT !.data = source']
                    ELSE imageData
    /\ sourceBuf' = targetBuf
    /\ targetBuf' = sourceBuf
    /\ pass' = pass + 1
    /\ UNCHANGED <<bpc, radius, boxes, output>>

\* The end of applyBlur: the output ImageData holds a copy of source.
ApplyBlurFinish ==
    /\ bpc = "loop"
    /\ pass = 3
    /\ output' = [width |-> imageData.width, height |-> imageData.height, data |-> source]
    /\ bpc' = "done"
    /\ UNCHANGED <<imageData, radius, boxes, source, target, temp, pass,
                   sourceBuf, targetBuf, blurLog>>

(***************************************************************************)
(* The two-column track listing                                            *)
(***************************************************************************)

\* Most tracks an album of the model has.
MaxTracks == 25

\* n pixels, in the half pixels of the model.
Px(n) == 2 * n

\* const gapBetweenColumns = 50
gapBetweenColumns == Px(50)

DecimalDigits == <<"0", "1", "2", "3", "4", "5", "6", "7", "8", "9">>

\* The decimal digits of a natural number, as the template literal prints
\* ${i + 1}.
RECURSIVE ToString10(_)
ToString10(v) ==
    IF v < 10 THEN <<DecimalDigits[v + 1]>>
    ELSE ToString10(v \div 10) \o <<DecimalDigits[(v % 10) + 1]>>

\* `${i + 1}. ${tracks[i]}` for the 0-based index i.
TrackText(trks, i) == ToString10(i + 1) \o <<".", " ">> \o trks[i + 1]

\* The loop that finds the widest truncated entry among the tracks
\* i, i + 1, ... below limit, starting from the width so far.
RECURSIVE MaxColumnTextWidth(_, _, _, _, _, _)
MaxColumnTextWidth(c, trks, i, limit, maxColumnWidth, widest) ==
    IF i < limit /\ i < Len(trks)
    THEN MaxColumnTextWidth(c, trks, i + 1, limit, maxColumnWidth,
             Max(widest, Measure(c, truncateText(c, TrackText(trks, i), maxColumnWidth))))
    ELSE widest

\* Mutant: half the section, the gap not taken off.
MaxColumnWidthOfWholeSection(sw) == sw \div 2

\* (sectionWidth - gapBetweenColumns) / 2: exact, a section width being a
\* whole number of pixels and so an even number of half pixels.
MaxColumnWidth(sw) == (sw - gapBetweenColumns) \div 2

\* startX + Math.min(maxFirstColumnWidth, maxColumnWidth) + gapBetweenColumns
SecondColumnX(c, trks, sx, sw) ==
    sx + Min(MaxColumnTextWidth(c, trks, 0, 10, MaxColumnWidth(sw), 0), MaxColumnWidth(sw))
       + gapBetweenColumns

\* Mutant: the boundary of the width allotted to the column, not of the
\* text in it.
calculateTrackListingBoundaryAllotted(c, trks, sx, sw) ==
    IF Len(trks) > 10
    THEN SecondColumnX(c, trks, sx, sw) + MaxColumnWidth(sw)
    ELSE sx + MaxColumnWidth(sw)

\* calculateTrackListingBoundary, the font already set.
calculateTrackListingBoundary(c, trks, sx, sw) ==
    IF Len(trks) > 10
    THEN SecondColumnX(c, trks, sx, sw)
             + MaxColumnTextWidth(c, trks, 10, 20, MaxColumnWidth(sw), 0)
    ELSE sx + MaxColumnTextWidth(c, trks, 0, 10, MaxColumnWidth(sw), 0)

\* The fillText calls of a drawing loop over the tracks i, i + 1, ... below
\* limit, at column x, row i - first.
RECURSIVE ColumnDraws(_, _, _, _, _, _, _, _, _)
ColumnDraws(c, trks, i, first, limit, x, sy, lh, mcw) ==
    IF i < limit /\ i < Len(trks)
    THEN <<[text |-> truncateText(c, TrackText(trks, i), mcw),
            x |-> x, y |-> sy + (i - first) * lh]>>
         \o ColumnDraws(c, trks, i + 1, first, limit, x, sy, lh, mcw)
    ELSE <<>>

\* for (let i = 0; i < 10 && i < tracks.length; i++) ctx.fillText(...)
FirstColumnDraws(c, trks, sx, sy, sw, lh) ==
    ColumnDraws(c, trks, 0, 0, 10, sx, sy, lh, MaxColumnWidth(sw))

\* Mutant: the second column takes every remaining track.
SecondColumnDrawsAll(c, trks, sx, sy, sw, lh) ==
    ColumnDraws(c, trks, 10, 10, Len(trks), SecondColumnX(c, trks, sx, sw), sy, lh,
                MaxColumnWidth(sw))

\* for (let i = 10; i < 20 && i < tracks.length; i++) ctx.fillText(...)
SecondColumnDraws(c, trks, sx, sy, sw, lh) ==
    ColumnDraws(c, trks, 10, 10, 20, SecondColumnX(c, trks, sx, sw), sy, lh,
                MaxColumnWidth(sw))

\* Track titles of the model: a short, a wide and a long one.
TitleShort == <<"i">>
TitleWide == <<"W", "W", "W">>
TitleLong == <<"W", "i", "W", "i", "W", "i">>

\* The track lists tried: n titles, all short, or wide and short in turn,
\* or long, wide and short in turn.
TrackLists ==
    {[k \in 1 .. n |-> <<TitleShort, TitleWide, TitleLong>>[((k * v) % 3) + 1]] :
        n \in 0 .. MaxTracks, v \in 1 .. 3}

\* The context's text state before the listing is laid out.
CtxStates ==
    {[font |-> f, fillStyle |-> "#000000", textAlign |-> a, textBaseline |-> "alphabetic"] :
        f \in {MonoFont, "62px Ubuntu"}, a \in {"start", "right"}}

TrackIdle ==
    /\ kpc = "idle"
    /\ trackCtx = [font |-> MonoFont, fillStyle |-> "#000000",
                   textAlign |-> "start", textBaseline |-> "alphabetic"]
    /\ tracks = <<>>
    /\ startX = 0
    /\ startY = 0
    /\ sectionWidth = 0
    /\ lineHeight = 0
    /\ trackBoundary = 0
    /\ fillTexts = <<>>

TrackInit ==
    /\ kpc = "ready"
    /\ trackCtx \in CtxStates
    /\ tracks \in TrackLists
    /\ startX \in {Px(0), Px(200)}
    /\ startY = Px(2780)
    /\ sectionWidth \in {Px(40), Px(57), Px(62), Px(1725)}
    /\ lineHeight = Px(62)
    /\ trackBoundary = 0
    /\ fillTexts = <<>>

\* calculateTrackListingBoundary(ctx, trackTitles, startX, sectionWidth, 62)
CalculateTrackListingBoundary ==
    /\ kpc = "ready"
    /\ trackCtx' = [trackCtx EXCEPT !.font = TrackFont]
    /\ trackBoundary' = calculateTrackListingBoundary(trackCtx', tracks, startX, sectionWidth)
    /\ kpc' = "measured"
    /\ UNCHANGED <<tracks, startX, startY, sectionWidth, lineHeight, fillTexts>>

\* drawTrackListing(ctx, trackTitles, startX, startY, sectionWidth, lineHeight)
DrawTrackListing ==
    /\ kpc = "measured"
    /\ trackCtx' = [font |-> TrackFont, fillStyle |-> "#ffffff",
                    textAlign |-> "left", textBaseline |-> "top"]
    /\ fillTexts' = fillTexts
           \o FirstColumnDraws(trackCtx', tracks, startX, startY, sectionWidth, lineHeight)
           \o SecondColumnDraws(trackCtx', tracks, startX, startY, sectionWidth, lineHeight)
    /\ kpc' = "drawn"
    /\ UNCHANGED <<tracks, startX, startY, sectionWidth, lineHeight, trackBoundary>>

(***************************************************************************)
(* The gradient backgrounds                                                *)
(***************************************************************************)

\* Longest list of colours or stops a gradient is constructed with.
MaxColors == 3

GradientColors == {"#ffffff", "#808080", "#000000"}

ColorStops ==
    {[position |-> Fraction(0, 1), color |-> "#ffffff"],
     [position |-> Fraction(1, 2), color |-> "#808080"],
     [position |-> Fraction(1, 1), color |-> "#000000"]}

\* The outcome of a constructor call: the instance, or the error thrown.
Constructed(instance) == [threw |-> FALSE, error |-> "", instance |-> instance]
Throws(message) == [threw |-> TRUE, error |-> message, instance |-> Null]

\* Mutant: the constructor accepts any list.
GradientTopBackgroundUnchecked(colors) ==
    Constructed([kind |-> "GradientTopBackground", colors |-> colors])

GradientTopBackground(colors) ==
    IF Len(colors) < 2 THEN Throws("Gradient requires at least 2 colors")
    ELSE Constructed([kind |-> "GradientTopBackground", colors |-> colors])

GradientBottomBackground(colors) ==
    IF Len(colors) < 2 THEN Throws("Gradient requires at least 2 colors")
    ELSE Constructed([kind |-> "GradientBottomBackground", colors |-> colors])

CustomGradientBackground(colorStops, direction) ==
    IF Len(colorStops) < 2 THEN Throws("Gradient requires at least 2 color stops")
    ELSE Constructed([kind |-> "CustomGradientBackground", colorStops |-> colorStops,
                      direction |-> direction])

RadialGradientBackground(colors, centerX, centerY) ==
    IF Len(colors) < 2 THEN Throws("Gradient requires at least 2 colors")
    ELSE Constructed([kind |-> "RadialGradientBackground", colors |-> colors,
                      centerX |-> centerX, centerY |-> centerY])

BackgroundIdle ==
    /\ gpc = "idle"
    /\ ctorKind = ""
    /\ ctorArgs = <<>>
    /\ background = Null
    /\ thrown = ""

BackgroundInit ==
    /\ gpc = "ready"
    /\ ctorKind = ""
    /\ ctorArgs = <<>>
    /\ background = Null
    /\ thrown = ""

\* The effect of a `new` expression: the instance is bound if the
\* constructor returns, and nothing is if it throws.
New(kind, args, outcome) ==
    /\ gpc = "ready"
    /\ ctorKind' = kind
    /\ ctorArgs' = args
    /\ background' = outcome.instance
    /\ thrown' = outcome.error
    /\ gpc' = IF outcome.threw THEN "threw" ELSE "constructed"

NewGradientTopBackground ==
    \E colors \in SeqsUpTo(GradientColors, MaxColors) :
        New("GradientTopBackground", colors, GradientTopBackground(colors))

NewGradientBottomBackground ==
    \E colors \in SeqsUpTo(GradientColors, MaxColors) :
        New("GradientBottomBackground", colors, GradientBottomBackground(colors))

NewCustomGradientBackground ==
    \E colorStops \in SeqsUpTo(ColorStops, MaxColors) :
        \E direction \in {"horizontal", "vertical", "diagonal"} :
            New("CustomGradientBackground", colorStops,
                CustomGradientBackground(colorStops, direction))

NewRadialGradientBackground ==
    \E colors \in SeqsUpTo(GradientColors, MaxColors) :
        \E center \in {Fraction(0, 1), Fraction(1, 2), Fraction(1, 1)} :
            New("RadialGradientBackground", colors,
                RadialGradientBackground(colors, center, Fraction(1, 2)))

(***************************************************************************)
(* Rendering the backgrounds                                               *)
(***************************************************************************)

\* Largest width and height of the canvas a background is rendered on.
MaxCanvas == 3
\* Largest width and height of a decoded image.
MaxImage == 11
\* Longest extracted palette a palette gradient is made of.
MaxPalette == 6

\* The numbers of the renderers are the fractions n / d, computed exactly.
\* 1 / 0 is Infinity and 0 / 0 is NaN, as in JavaScript.
FInt(k) == Fraction(k, 1)
FTimes(k, a) == Fraction(k * a.n, a.d)
FSub(a, b) == Fraction(a.n * b.d - b.n * a.d, a.d * b.d)
FAdd(a, b) == Fraction(a.n * b.d + b.n * a.d, a.d * b.d)
FHalf(a) == Fraction(a.n, 2 * a.d)
FLess(a, b) == a.n * b.d < b.n * a.d
FEqual(a, b) == a.d # 0 /\ b.d # 0 /\ a.n * b.d = b.n * a.d
IsFinite(a) == a.d # 0
\* Math.min and Math.max of two finite numbers
FMin(a, b) == IF FLess(b, a) THEN b ELSE a
FMax(a, b) == IF FLess(a, b) THEN b ELSE a

\* The scaling of an image is computed as JavaScript computes it, in binary
\* floating point rounded to nearest, ties to even, after each operation;
\* the significand has MantissaBits bits in place of the 53 of a double.
MantissaBits == 5

RECURSIVE Pow2(_)
Pow2(k) == IF k = 0 THEN 1 ELSE 2 * Pow2(k - 1)

\* n / d >= 0 brought between 2^(MantissaBits - 1) and 2^MantissaBits by
\* the power of two e.
RECURSIVE Normalized(_, _, _)
Normalized(n, d, e) ==
    IF n >= Pow2(MantissaBits) * d THEN Normalized(n, 2 * d, e + 1)
    ELSE IF n < Pow2(MantissaBits - 1) * d THEN Normalized(2 * n, d, e - 1)
    ELSE [n |-> n, d |-> d, e |-> e]

\* n / d >= 0 rounded to the nearest integer, a tie to the even one
RoundHalfEven(n, d) ==
    LET q == n \div d
        r == n % d
    IN  IF 2 * r > d \/ (2 * r = d /\ q % 2 = 1) THEN q + 1 ELSE q

\* m * 2^e as a fraction in lowest terms
RECURSIVE Scaled(_, _)
Scaled(m, e) ==
    IF e >= 0 THEN Fraction(m * Pow2(e), 1)
    ELSE IF m % 2 = 0 THEN Scaled(m \div 2, e + 1)
    ELSE Fraction(m, Pow2(0 - e))

\* The floating-point number nearest to a finite a
Fl(a) ==
    IF a.d = 0 \/ a.n = 0 THEN a
    ELSE LET sign == IF (a.n < 0) = (a.d < 0) THEN 1 ELSE 0 - 1
             n == IF a.n < 0 THEN 0 - a.n ELSE a.n
             d == IF a.d < 0 THEN 0 - a.d ELSE a.d
             z == Normalized(n, d, 0)
             v == Scaled(RoundHalfEven(z.n, z.d), z.e)
         IN  Fraction(sign * v.n, v.d)

\* The colour literals of the renderers, as the strings they are.
Hex000000 == <<"#", "0", "0", "0", "0", "0", "0">>
HexFFFFFF == <<"#", "f", "f", "f", "f", "f", "f">>
Hex1e1e1e == <<"#", "1", "e", "1", "e", "1", "e">>
Hex808080 == <<"#", "8", "0", "8", "0", "8", "0">>

\* A 2d context over a canvas of the given size: the fill style, the
\* painting calls made so far and, for each pixel, the number of the last
\* call that painted it (0: the pixel still holds what it held before).
NewContext(w, h) ==
    [fillStyle |-> Hex000000,
     calls |-> <<>>,
     pixels |-> [p \in (0 .. w - 1) \X (0 .. h - 1) |-> 0]]

\* The rectangle x .. x + w, y .. y + h has a part of pixel p inside.
Overlaps(x, y, w, h, p) ==
    /\ FLess(x, FInt(p[1] + 1)) /\ FLess(FInt(p[1]), FAdd(x, w))
    /\ FLess(y, FInt(p[2] + 1)) /\ FLess(FInt(p[2]), FAdd(y, h))

\* A painting call over the rectangle: recorded, and every pixel the
\* rectangle reaches marked with the call's number.
PaintCall(c, call, x, y, w, h) ==
    [c EXCEPT
        !.calls = Append(@, call),
        !.pixels = [p \in DOMAIN @ |->
                       IF Overlaps(x, y, w, h, p) THEN Len(c.calls) + 1 ELSE @[p]]]

\* ctx.fillStyle = style
SetFillStyle(c, style) == [c EXCEPT !.fillStyle = style]

\* ctx.fillRect(x, y, w, h)
FillRect(c, x, y, w, h) ==
    PaintCall(c, [op |-> "fillRect", fillStyle |-> c.fillStyle,
                  x |-> x, y |-> y, w |-> w, h |-> h], x, y, w, h)

\* ctx.drawImage(image, x, y, w, h)
DrawImage(c, img, x, y, w, h) ==
    PaintCall(c, [op |-> "drawImage", fillStyle |-> c.fillStyle,
                  x |-> x, y |-> y, w |-> w, h |-> h], x, y, w, h)

\* ctx.putImageData(data, dx, dy): the whole buffer, pixel for pixel.
PutImageData(c, data, dx, dy) ==
    PaintCall(c, [op |-> "putImageData", fillStyle |-> c.fillStyle,
                  x |-> FInt(dx), y |-> FInt(dy),
                  w |-> FInt(data.width), h |-> FInt(data.height)],
              FInt(dx), FInt(dy), FInt(data.width), FInt(data.height))

\* ctx.createLinearGradient(x0, y0, x1, y1)
CreateLinearGradient(x0, y0, x1, y1) ==
    [type |-> "linear", x0 |-> x0, y0 |-> y0, r0 |-> FInt(0),
     x1 |-> x1, y1 |-> y1, r1 |-> FInt(0), stops |-> <<>>]

\* ctx.createRadialGradient(x0, y0, r0, x1, y1, r1)
CreateRadialGradient(x0, y0, r0, x1, y1, r1) ==
    [type |-> "radial", x0 |-> x0, y0 |-> y0, r0 |-> r0,
     x1 |-> x1, y1 |-> y1, r1 |-> r1, stops |-> <<>>]

\* gradient.addColorStop(offset, color)
AddColorStop(gradient, offset, color) ==
    [gradient EXCEPT !.stops = Append(@, [offset |-> offset, color |-> color])]

\* colors.forEach((color, index) => gradient.addColorStop(index * step, color))
RECURSIVE AddStopsEvenly(_, _, _, _)
AddStopsEvenly(gradient, colors, index, step) ==
    IF index >= Len(colors) THEN gradient
    ELSE AddStopsEvenly(AddColorStop(gradient, FTimes(index, step), colors[index + 1]),
                        colors, index + 1, step)

\* this.colorStops.forEach(({ position, color }) => gradient.addColorStop(position, color))
RECURSIVE AddStopsGiven(_, _, _)
AddStopsGiven(gradient, colorStops, index) ==
    IF index >= Len(colorStops) THEN gradient
    ELSE AddStopsGiven(AddColorStop(gradient, colorStops[index + 1].position,
                                    colorStops[index + 1].color),
                       colorStops, index + 1)

\* The constructors that check nothing: the instance holds the arguments.
BlackBackground == [kind |-> "BlackBackground"]
WhiteBackground == [kind |-> "WhiteBackground"]
SolidColorBackground(color) == [kind |-> "SolidColorBackground", color |-> color]
ImageBackground(imagePath, mode) ==
    [kind |-> "ImageBackground", imagePath |-> imagePath, mode |-> mode]
BlurredAlbumCoverBackground(albumCoverPath, blurAmount, brightness, mode) ==
    [kind |-> "BlurredAlbumCoverBackground", albumCoverPath |-> albumCoverPath,
     blurAmount |-> blurAmount, brightness |-> brightness, mode |-> mode]
AlbumColorPaletteBackground(extractedColors, style, direction) ==
    [kind |-> "AlbumColorPaletteBackground", extractedColors |-> extractedColors,
     style |-> style, direction |-> direction]

\* BlackBackground.render
BlackBackgroundRender(c, width, height) ==
    FillRect(SetFillStyle(c, Hex000000), FInt(0), FInt(0), FInt(width), FInt(height))

\* WhiteBackground.render
WhiteBackgroundRender(c, width, height) ==
    FillRect(SetFillStyle(c, HexFFFFFF), FInt(0), FInt(0), FInt(width), FInt(height))

\* SolidColorBackground.render
SolidColorBackgroundRender(this, c, width, height) ==
    FillRect(SetFillStyle(c, this.color), FInt(0), FInt(0), FInt(width), FInt(height))

\* const step = 1 / (colors.length - 1)
StepOf(colors) == Fraction(1, Len(colors) - 1)

\* GradientTopBackground.render
GradientTopBackgroundRender(this, c, width, height) ==
    LET gradient == CreateLinearGradient(FInt(0), FInt(0), FInt(0), FInt(height))
        stopped == AddStopsEvenly(gradient, this.colors, 0, StepOf(this.colors))
    IN  FillRect(SetFillStyle(c, stopped), FInt(0), FInt(0), FInt(width), FInt(height))

\* GradientBottomBackground.render
GradientBottomBackgroundRender(this, c, width, height) ==
    LET gradient == CreateLinearGradient(FInt(0), FInt(height), FInt(0), FInt(0))
        stopped == AddStopsEvenly(gradient, this.colors, 0, StepOf(this.colors))
    IN  FillRect(SetFillStyle(c, stopped), FInt(0), FInt(0), FInt(width), FInt(height))

\* CustomGradientBackground.render
CustomGradientBackgroundRender(this, c, width, height) ==
    LET gradient ==
            CASE this.direction = "horizontal" ->
                     CreateLinearGradient(FInt(0), FInt(0), FInt(width), FInt(0))
              [] this.direction = "diagonal" ->
                     CreateLinearGradient(FInt(0), FInt(0), FInt(width), FInt(height))
              [] OTHER ->
                     CreateLinearGradient(FInt(0), FInt(0), FInt(0), FInt(height))
        stopped == AddStopsGiven(gradient, this.colorStops, 0)
    IN  FillRect(SetFillStyle(c, stopped), FInt(0), FInt(0), FInt(width), FInt(height))

\* Mutant: the smaller side as the outer radius.
OuterRadiusOfSmallerSide(width, height) == Min(width, height)

\* const radius = Math.max(width, height)
OuterRadius(width, height) == Max(width, height)

\* RadialGradientBackground.render
RadialGradientBackgroundRender(this, c, width, height) ==
    LET x == FTimes(width, this.centerX)
        y == FTimes(height, this.centerY)
        gradient == CreateRadialGradient(x, y, FInt(0), x, y,
                                         FInt(OuterRadius(width, height)))
        stopped == AddStopsEvenly(gradient, this.colors, 0, StepOf(this.colors))
    IN  FillRect(SetFillStyle(c, stopped), FInt(0), FInt(0), FInt(width), FInt(height))

\* The drawImage call of the 'fit' and 'fill' branches: the image scaled by
\* scale and centred.
DrawScaled(c, img, scale, width, height) ==
    LET scaledWidth == Fl(FTimes(img.width, scale))
        scaledHeight == Fl(FTimes(img.height, scale))
        x == Fl(FHalf(Fl(FSub(FInt(width), scaledWidth))))
        y == Fl(FHalf(Fl(FSub(FInt(height), scaledHeight))))
    IN  DrawImage(c, img, x, y, scaledWidth, scaledHeight)

\* Mutant: 'fit' scales by the larger of the two ratios.
FitScaleOfLargerRatio(img, width, height) ==
    FMax(Fl(Fraction(width, img.width)), Fl(Fraction(height, img.height)))

\* Math.min(width / image.width, height / image.height)
FitScale(img, width, height) ==
    FMin(Fl(Fraction(width, img.width)), Fl(Fraction(height, img.height)))

\* Math.max(width / image.width, height / image.height)
FillScale(img, width, height) ==
    FMax(Fl(Fraction(width, img.width)), Fl(Fraction(height, img.height)))

\* ImageBackground.render once the image is loaded
ImageBackgroundRender(this, img, c, width, height) ==
    IF this.mode = "stretch"
    THEN DrawImage(c, img, FInt(0), FInt(0), FInt(width), FInt(height))
    ELSE IF this.mode = "fit"
    THEN DrawScaled(c, img, FitScale(img, width, height), width, height)
    ELSE DrawScaled(c, img, FillScale(img, width, height), width, height)

\* BlurredAlbumCoverBackground.render once the image is loaded: what is
\* drawn on the offscreen canvas
BlurredOffscreen(this, img, c, width, height) ==
    IF this.mode = "fit"
    THEN DrawScaled(FillRect(SetFillStyle(c, Hex000000),
                             FInt(0), FInt(0), FInt(width), FInt(height)),
                    img, FitScale(img, width, height), width, height)
    ELSE DrawScaled(c, img, FillScale(img, width, height), width, height)

\* and what is put on the destination: the blurred and dimmed ImageData of
\* the whole offscreen canvas.
BlurredAlbumCoverBackgroundRender(this, c, width, height) ==
    PutImageData(c, [width |-> width, height |-> height], 0, 0)

\* [...this.extractedColors].reverse()
Reverse(s) == [k \in 1 .. Len(s) |-> s[Len(s) + 1 - k]]

\* `rgba(${rgb.r}, ${rgb.g}, ${rgb.b}, ${alpha})`
Rgba(rgb, alpha) == [r |-> rgb.r, g |-> rgb.g, b |-> rgb.b, a |-> alpha]

\* The private hexToRgb of AlbumColorPaletteBackground: black for a string
\* that is no hex colour.
PrivateHexToRgb(hex) ==
    IF hexToRgb(hex) = Null THEN [r |-> 0, g |-> 0, b |-> 0] ELSE hexToRgb(hex)

\* The 'emphasized' stops of core/background-modes.ts, light to dark
EmphasizedLightToDarkCore(gradient, colors) ==
    LET n == Len(colors)
        g0 == AddColorStop(gradient, FInt(0), colors[1])
        g1 == IF n > 1 THEN AddColorStop(g0, Fraction(1, 10), colors[2]) ELSE g0
        g2 == IF n > 2 THEN AddColorStop(g1, Fraction(3, 10), colors[3]) ELSE g1
        g3 == IF n > 3 THEN AddColorStop(g2, Fraction(5, 10), colors[4]) ELSE g2
    IN  IF n > 4 THEN AddColorStop(g3, FInt(1), colors[5])
        ELSE AddColorStop(g3, FInt(1), colors[n])

\* and dark to light
EmphasizedDarkToLightCore(gradient, colors) ==
    LET n == Len(colors)
        g0 == AddColorStop(gradient, FInt(0), colors[1])
        g1 == IF n > 1 THEN AddColorStop(g0, Fraction(5, 10), colors[2]) ELSE g0
        g2 == IF n > 2 THEN AddColorStop(g1, Fraction(7, 10), colors[3]) ELSE g1
        g3 == IF n > 3 THEN AddColorStop(g2, Fraction(9, 10), colors[4]) ELSE g2
    IN  IF n > 4 THEN AddColorStop(g3, FInt(1), colors[5])
        ELSE AddColorStop(g3, FInt(1), colors[n])

\* AlbumColorPaletteBackground.render of core/background-modes.ts
AlbumColorPaletteBackgroundRenderCore(this, c, width, height) ==
    IF Len(this.extractedColors) = 0
    THEN FillRect(SetFillStyle(c, Hex000000), FInt(0), FInt(0), FInt(width), FInt(height))
    ELSE LET colors == IF this.direction = "darkToLight"
                       THEN Reverse(this.extractedColors)
                       ELSE this.extractedColors
             gradient == CreateLinearGradient(FInt(0), FInt(0), FInt(0), FInt(height))
             stopped ==
                 IF this.style = "emphasized"
                 THEN IF this.direction = "lightToDark"
                      THEN EmphasizedLightToDarkCore(gradient, colors)
                      ELSE EmphasizedDarkToLightCore(gradient, colors)
                 ELSE AddStopsEvenly(gradient, colors, 0, StepOf(colors))
         IN  FillRect(SetFillStyle(c, stopped),
                      FInt(0), FInt(0), FInt(width), FInt(height))

\* The 'emphasized' stops of test.ts, light to dark
EmphasizedLightToDark(gradient, colors) ==
    LET n == Len(colors)
        g0 == AddColorStop(gradient, FInt(0), colors[1])
        g1 == IF n > 1 THEN AddColorStop(g0, Fraction(2, 10), colors[2]) ELSE g0
        g2 == IF n > 2 THEN AddColorStop(g1, Fraction(4, 10), colors[3]) ELSE g1
        g3 == IF n > 3
              THEN AddColorStop(g2, Fraction(6, 10),
                                Rgba(PrivateHexToRgb(colors[4]), Fraction(8, 10)))
              ELSE g2
        last == IF n > 4 THEN PrivateHexToRgb(colors[5]) ELSE PrivateHexToRgb(colors[n])
    IN  AddColorStop(AddColorStop(g3, Fraction(8, 10), Rgba(last, Fraction(6, 10))),
                     FInt(1), Rgba(last, Fraction(5, 10)))

\* and dark to light
EmphasizedDarkToLight(gradient, colors) ==
    LET n == Len(colors)
        rgb0 == PrivateHexToRgb(colors[1])
        g0 == AddColorStop(gradient, FInt(0), Rgba(rgb0, Fraction(5, 10)))
        g1 == AddColorStop(g0, Fraction(2, 10), Rgba(rgb0, Fraction(6, 10)))
        g2 == IF n > 1
              THEN AddColorStop(g1, Fraction(4, 10),
                                Rgba(PrivateHexToRgb(colors[2]), Fraction(8, 10)))
              ELSE g1
        g3 == IF n > 2 THEN AddColorStop(g2, Fraction(6, 10), colors[3]) ELSE g2
        g4 == IF n > 3 THEN AddColorStop(g3, Fraction(8, 10), colors[4]) ELSE g3
    IN  IF n > 4 THEN AddColorStop(g4, FInt(1), colors[5])
        ELSE AddColorStop(g4, FInt(1), colors[n])

\* AlbumColorPaletteBackground.render of test.ts
AlbumColorPaletteBackgroundRender(this, c, width, height) ==
    IF Len(this.extractedColors) = 0
    THEN FillRect(SetFillStyle(c, Hex000000), FInt(0), FInt(0), FInt(width), FInt(height))
    ELSE LET based == FillRect(SetFillStyle(c, Hex1e1e1e),
                               FInt(0), FInt(0), FInt(width), FInt(height))
             colors == IF this.direction = "darkToLight"
                       THEN Reverse(this.extractedColors)
                       ELSE this.extractedColors
             gradient == CreateLinearGradient(FInt(0), FInt(0), FInt(0), FInt(height))
             stopped ==
                 IF this.style = "emphasized"
                 THEN IF this.direction = "lightToDark"
                      THEN EmphasizedLightToDark(gradient, colors)
                      ELSE EmphasizedDarkToLight(gradient, colors)
                 ELSE AddStopsEvenly(gradient, colors, 0, StepOf(colors))
         IN  FillRect(SetFillStyle(based, stopped),
                      FInt(0), FInt(0), FInt(width), FInt(height))

\* The colours and stops the gradients are constructed with.
RenderColors == {HexFFFFFF, Hex000000}
RenderStops ==
    {[position |-> Fraction(0, 1), color |-> HexFFFFFF],
     [position |-> Fraction(1, 2), color |-> Hex808080],
     [position |-> Fraction(1, 1), color |-> Hex000000]}
CenterFractions == {Fraction(0, 1), Fraction(1, 2), Fraction(1, 1)}

\* The image files: decodable ones of every size, and one that is not.
Undecodable == [decodable |-> FALSE, width |-> 0, height |-> 0]
ImageFiles ==
    {[decodable |-> TRUE, width |-> w, height |-> h] :
        w \in 1 .. MaxImage, h \in 1 .. MaxImage} \cup {Undecodable}

\* The extracted palettes: n colours from light to dark, as rgbToHex prints
\* them.
ExtractedPalettes ==
    {[k \in 1 .. n |-> rgbToHex([r |-> 256 - 32 * k, g |-> 224 - 24 * k, b |-> 200 - 25 * k])] :
        n \in 0 .. MaxPalette}

\* The instances a constructor returned.
InstancesOf(outcomes) == {o.instance : o \in {p \in outcomes : ~ p.threw}}

\* Every background that can be rendered.
Renderers ==
    {BlackBackground, WhiteBackground}
    \cup {SolidColorBackground(color) : color \in RenderColors \cup {Hex808080}}
    \cup InstancesOf({GradientTopBackground(colors) :
                         colors \in SeqsUpTo(RenderColors, MaxColors)})
    \cup InstancesOf({GradientBottomBackground(colors) :
                         colors \in SeqsUpTo(RenderColors, MaxColors)})
    \cup InstancesOf({CustomGradientBackground(colorStops, direction) :
                         colorStops \in SeqsUpTo(RenderStops, MaxColors),
                         direction \in {"horizontal", "vertical", "diagonal"}})
    \cup InstancesOf({RadialGradientBackground(colors, centerX, centerY) :
                         colors \in SeqsUpTo(RenderColors, MaxColors),
                         centerX \in CenterFractions, centerY \in CenterFractions})
    \cup {ImageBackground(imagePath, mode) :
             imagePath \in ImageFiles, mode \in {"fill", "fit", "stretch"}}
    \cup {BlurredAlbumCoverBackground(albumCoverPath, 20, Fraction(7, 10), mode) :
             albumCoverPath \in ImageFiles, mode \in {"fill", "fit"}}
    \cup {AlbumColorPaletteBackground(extractedColors, style, direction) :
             extractedColors \in ExtractedPalettes,
             style \in {"smooth", "emphasized"},
             direction \in {"lightToDark", "darkToLight"}}

RenderIdle ==
    /\ rpc = "idle"
    /\ canvasWidth = 0
    /\ canvasHeight = 0
    /\ renderer = Null
    /\ renderCtx = NewContext(0, 0)
    /\ offscreenCtx = NewContext(0, 0)
    /\ renderThrown = ""

\* A canvas with content of its own, and a background to render on it.
RenderInit ==
    /\ rpc = "ready"
    /\ canvasWidth \in 1 .. MaxCanvas
    /\ canvasHeight \in 1 .. MaxCanvas
    /\ renderer \in Renderers
    /\ renderCtx = NewContext(canvasWidth, canvasHeight)
    /\ offscreenCtx = NewContext(0, 0)
    /\ renderThrown = ""

\* render(ctx, width, height) of a renderer of the given class returns,
\* having left the context as given.
Renders(kind, rendered) ==
    /\ rpc = "ready"
    /\ renderer.kind = kind
    /\ renderCtx' = rendered
    /\ rpc' = "done"
    /\ UNCHANGED <<canvasWidth, canvasHeight, renderer, renderThrown>>

RenderBlackBackground ==
    /\ Renders("BlackBackground",
               BlackBackgroundRender(renderCtx, canvasWidth, canvasHeight))
    /\ UNCHANGED offscreenCtx

RenderWhiteBackground ==
    /\ Renders("WhiteBackground",
               WhiteBackgroundRender(renderCtx, canvasWidth, canvasHeight))
    /\ UNCHANGED offscreenCtx

RenderSolidColorBackground ==
    /\ Renders("SolidColorBackground",
               SolidColorBackgroundRender(renderer, renderCtx, canvasWidth, canvasHeight))
    /\ UNCHANGED offscreenCtx

RenderGradientTopBackground ==
    /\ Renders("GradientTopBackground",
               GradientTopBackgroundRender(renderer, renderCtx, canvasWidth, canvasHeight))
    /\ UNCHANGED offscreenCtx

RenderGradientBottomBackground ==
    /\ Renders("GradientBottomBackground",
               GradientBottomBackgroundRender(renderer, renderCtx, canvasWidth, canvasHeight))
    /\ UNCHANGED offscreenCtx

RenderCustomGradientBackground ==
    /\ Renders("CustomGradientBackground",
               CustomGradientBackgroundRender(renderer, renderCtx, canvasWidth, canvasHeight))
    /\ UNCHANGED offscreenCtx

RenderRadialGradientBackground ==
    /\ Renders("RadialGradientBackground",
               RadialGradientBackgroundRender(renderer, renderCtx, canvasWidth, canvasHeight))
    /\ UNCHANGED offscreenCtx

\* await canvas.loadImage(path) rejects: render throws before it draws.
LoadImageRejects ==
    /\ rpc' = "threw"
    /\ renderThrown' = "loadImage"
    /\ UNCHANGED <<canvasWidth, canvasHeight, renderer, renderCtx, offscreenCtx>>

RenderImageBackground ==
    /\ rpc = "ready"
    /\ renderer.kind = "ImageBackground"
    /\ IF renderer.imagePath.decodable
       THEN /\ Renders("ImageBackground",
                       ImageBackgroundRender(renderer, renderer.imagePath, renderCtx,
                                             canvasWidth, canvasHeight))
            /\ UNCHANGED offscreenCtx
       ELSE LoadImageRejects

RenderBlurredAlbumCoverBackground ==
    /\ rpc = "ready"
    /\ renderer.kind = "BlurredAlbumCoverBackground"
    /\ IF renderer.albumCoverPath.decodable
       THEN /\ offscreenCtx' =
                   BlurredOffscreen(renderer, renderer.albumCoverPath,
                                    NewContext(canvasWidth, canvasHeight),
                                    canvasWidth, canvasHeight)
            /\ Renders("BlurredAlbumCoverBackground",
                       BlurredAlbumCoverBackgroundRender(renderer, renderCtx,
                                                         canvasWidth, canvasHeight))
       ELSE LoadImageRejects

\* render of the class as test.ts has it
RenderAlbumColorPaletteBackground ==
    /\ Renders("AlbumColorPaletteBackground",
               AlbumColorPaletteBackgroundRender(renderer, renderCtx,
                                                 canvasWidth, canvasHeight))
    /\ UNCHANGED offscreenCtx

\* render of the class as core/background-modes.ts has it
RenderAlbumColorPaletteBackgroundCore ==
    /\ Renders("AlbumColorPaletteBackground",
               AlbumColorPaletteBackgroundRenderCore(renderer, renderCtx,
                                                     canvasWidth, canvasHeight))
    /\ UNCHANGED offscreenCtx

(***************************************************************************)
(* Hex and RGB colour conversion                                           *)
(***************************************************************************)

\* Channel values around the one-digit and the two-digit boundaries.
ByteSamples == {0, 1, 9, 10, 15, 16, 127, 255}

\* The RGB colours converted: every combination of the sample bytes, and
\* every byte once in each channel.
RgbColours ==
    {[r |-> x, g |-> y, b |-> z] : x \in ByteSamples, y \in ByteSamples, z \in ByteSamples}
    \cup {[r |-> v, g |-> 255 - v, b |-> (7 * v) % 256] : v \in 0 .. 255}

HexPairs ==
    {<<"0", "0">>, <<"0", "a">>, <<"a", "0">>, <<"7", "f">>, <<"8", "0">>, <<"f", "f">>}

\* The strings parsed: lowercase #RRGGBB strings, and strings of other
\* shapes (upper case, no hash, too short, not hexadecimal).
HexStrings ==
    {<<"#">> \o x \o y \o z : x \in HexPairs, y \in HexPairs, z \in HexPairs}
    \cup {<<"#", "F", "F", "A", "a", "0", "0">>, <<"f", "f", "a", "a", "0", "0">>,
          <<"#", "f", "f", "a">>, <<"#", "g", "g", "0", "0", "0", "0">>, <<>>}

HexIdle ==
    /\ hpc = "idle"
    /\ rgbIn = Null
    /\ hexIn = Null
    /\ hexOut = Null
    /\ rgbOut = Null

HexInit ==
    /\ hpc = "ready"
    /\ \/ rgbIn \in RgbColours /\ hexIn = Null
       \/ rgbIn = Null /\ hexIn \in HexStrings
    /\ hexOut = Null
    /\ rgbOut = Null

\* rgbToHex(rgb) on the colour given.
RgbToHex ==
    /\ hpc = "ready"
    /\ rgbIn # Null
    /\ hexOut' = rgbToHex(rgbIn)
    /\ hpc' = "formatted"
    /\ UNCHANGED <<rgbIn, hexIn, rgbOut>>

\* hexToRgb(hex) on the string rgbToHex returned.
HexToRgbBack ==
    /\ hpc = "formatted"
    /\ rgbOut' = hexToRgb(hexOut)
    /\ hpc' = "done"
    /\ UNCHANGED <<rgbIn, hexIn, hexOut>>

\* hexToRgb(hex) on the string given.
HexToRgb ==
    /\ hpc = "ready"
    /\ hexIn # Null
    /\ rgbOut' = hexToRgb(hexIn)
    /\ hpc' = "parsed"
    /\ UNCHANGED <<rgbIn, hexIn, hexOut>>

\* rgbToHex(rgb) on the colour hexToRgb returned, if it returned one.
RgbToHexBack ==
    /\ hpc = "parsed"
    /\ rgbOut # Null
    /\ hexOut' = rgbToHex(rgbOut)
    /\ hpc' = "done"
    /\ UNCHANGED <<rgbIn, hexIn, rgbOut>>

(***************************************************************************)
(* The Frameify builder and its generate and generateBuffer                *)
(***************************************************************************)

\* Most withDesign, withBackground and withAutoBackground calls made on an
\* instance before it generates.
MaxBuilderCalls == 3

\* The outcome of an awaited call on the canvas: the context as the call
\* left it, or the error it rejected with.
Resolved(c) == [threw |-> FALSE, error |-> "", ctx |-> c]
Rejected(c, message) == [threw |-> TRUE, error |-> message, ctx |-> c]

\* Mutant: a black background stands in for an image that does not decode.
BackgroundRenderFallsBack(this, c, width, height) ==
    CASE this.kind = "BlackBackground" -> Resolved(BlackBackgroundRender(c, width, height))
      [] this.kind = "WhiteBackground" -> Resolved(WhiteBackgroundRender(c, width, height))
      [] this.kind = "ImageBackground" ->
             IF this.imagePath.decodable
             THEN Resolved(ImageBackgroundRender(this, this.imagePath, c, width, height))
             ELSE Resolved(BlackBackgroundRender(c, width, height))
      [] this.kind = "BlurredAlbumCoverBackground" ->
             IF this.albumCoverPath.decodable
             THEN Resolved(BlurredAlbumCoverBackgroundRender(this, c, width, height))
             ELSE Resolved(BlackBackgroundRender(c, width, height))
      [] this.kind = "AlbumColorPaletteBackground" ->
             Resolved(AlbumColorPaletteBackgroundRenderCore(this, c, width, height))

\* await background.render(ctx, config.width, config.height): the render of
\* the instance's class; the palette gradient is the class index.ts imports
\* from core/background-modes.
BackgroundRender(this, c, width, height) ==
    CASE this.kind = "BlackBackground" -> Resolved(BlackBackgroundRender(c, width, height))
      [] this.kind = "WhiteBackground" -> Resolved(WhiteBackgroundRender(c, width, height))
      [] this.kind = "ImageBackground" ->
             IF this.imagePath.decodable
             THEN Resolved(ImageBackgroundRender(this, this.imagePath, c, width, height))
             ELSE Rejected(c, "loadImage")
      [] this.kind = "BlurredAlbumCoverBackground" ->
             IF this.albumCoverPath.decodable
             THEN Resolved(BlurredAlbumCoverBackgroundRender(this, c, width, height))
             ELSE Rejected(c, "loadImage")
      [] this.kind = "AlbumColorPaletteBackground" ->
             Resolved(AlbumColorPaletteBackgroundRenderCore(this, c, width, height))

\* renderContext.extractedColors && renderContext.extractedColors.length > 0
HasExtractedColors(rc) ==
    "extractedColors" \in DOMAIN rc /\ Len(rc.extractedColors) > 0

\* options.name ?? fallback, the option absent when it was not given
OptionOr(options, name, fallback) ==
    IF name \in DOMAIN options THEN options[name] ELSE fallback

\* new AlbumColorPaletteBackground(renderContext.extractedColors,
\*     this.autoBackgroundOptions.style ?? 'emphasized',
\*     this.autoBackgroundOptions.direction ?? 'lightToDark')
AutoBackground(this, rc) ==
    AlbumColorPaletteBackground(rc.extractedColors,
        OptionOr(this.autoBackgroundOptions, "style", "emphasized"),
        OptionOr(this.autoBackgroundOptions, "direction", "lightToDark"))

\* The background generate renders (index.ts lines 101 to 122).
generateBackground(this, rc) ==
    LET selected ==
            IF this.useAutoBackground
            THEN IF HasExtractedColors(rc) THEN AutoBackground(this, rc)
                 ELSE BlackBackground
            ELSE this.backgroundMode
    IN  IF selected = Null THEN BlackBackground ELSE selected

\* Mutant: generateBuffer without the automatic background.
generateBufferBackgroundNoAuto(this, rc) ==
    IF this.backgroundMode = Null THEN BlackBackground ELSE this.backgroundMode

\* The background generateBuffer renders (index.ts lines 150 to 163).
generateBufferBackground(this, rc) ==
    LET selected ==
            IF this.useAutoBackground /\ HasExtractedColors(rc)
            THEN AutoBackground(this, rc)
            ELSE this.backgroundMode
    IN  IF selected = Null THEN BlackBackground ELSE selected

\* The designs: the canvas is a few pixels wide and high, in place of the
\* 2700 x 3600 of the default configuration.
Designs ==
    {[name |-> "Album Design #1", config |-> [width |-> 2, height |-> 3]],
     [name |-> "Song Design #1", config |-> [width |-> 2, height |-> 2]]}

\* The backgrounds handed to withBackground.
ExplicitBackgrounds ==
    {WhiteBackground,
     ImageBackground([decodable |-> TRUE, width |-> 1, height |-> 1], "fit"),
     ImageBackground(Undecodable, "fill"),
     BlurredAlbumCoverBackground([decodable |-> TRUE, width |-> 2, height |-> 1],
                                 20, Fraction(7, 10), "fill"),
     BlurredAlbumCoverBackground(Undecodable, 20, Fraction(7, 10), "fit")}

\* The options handed to withAutoBackground: each of the two given or not.
AutoBackgroundOptions ==
    {<<>>, [direction |-> "darkToLight"], [style |-> "smooth"],
     [direction |-> "lightToDark", style |-> "emphasized"],
     [direction |-> "darkToLight", style |-> "smooth"]}

\* What prepareRenderContext resolves with: a render context without
\* extractedColors, with an empty palette, with palettes of colours.
RenderContexts ==
    {[data |-> "data"]}
    \cup {[data |-> "data", extractedColors |-> p] :
             p \in {q \in ExtractedPalettes : Len(q) \in {0, 1, 5}}}

FrameifyIdle ==
    /\ fpc = "idle"
    /\ design = Null
    /\ backgroundMode = Null
    /\ useAutoBackground = FALSE
    /\ autoBackgroundOptions = <<>>
    /\ lastModeCall = [call |-> "none"]
    /\ built = 0
    /\ entry = ""
    /\ renderContext = Null
    /\ chosen = Null
    /\ posterCtx = NewContext(0, 0)
    /\ steps = <<>>
    /\ outputFile = Null
    /\ returned = Null
    /\ generateError = ""

\* new Frameify(): the field initializers.
FrameifyInit ==
    /\ fpc = "building"
    /\ design = Null
    /\ backgroundMode = Null
    /\ useAutoBackground = FALSE
    /\ autoBackgroundOptions = <<>>
    /\ lastModeCall = [call |-> "none"]
    /\ built = 0
    /\ entry = ""
    /\ renderContext = Null
    /\ chosen = Null
    /\ posterCtx = NewContext(0, 0)
    /\ steps = <<>>
    /\ outputFile = Null
    /\ returned = Null
    /\ generateError = ""

runVars == <<entry, renderContext, chosen, posterCtx, steps, outputFile, returned,
             generateError>>

\* withDesign(design)
WithDesign ==
    /\ fpc = "building"
    /\ built < MaxBuilderCalls
    /\ \E d \in Designs : design' = d
    /\ built' = built + 1
    /\ UNCHANGED <<fpc, backgroundMode, useAutoBackground, autoBackgroundOptions,
                   lastModeCall, runVars>>

\* withBackground(mode) without its second assignment.
WithBackgroundKeepsAuto ==
    /\ fpc = "building"
    /\ built < MaxBuilderCalls
    /\ \E m \in ExplicitBackgrounds :
           /\ backgroundMode' = m
           /\ lastModeCall' = [call |-> "withBackground", mode |-> m]
    /\ built' = built + 1
    /\ UNCHANGED <<fpc, design, useAutoBackground, autoBackgroundOptions, runVars>>

\* withBackground(mode)
WithBackground ==
    /\ fpc = "building"
    /\ built < MaxBuilderCalls
    /\ \E m \in ExplicitBackgrounds :
           /\ backgroundMode' = m
           /\ lastModeCall' = [call |-> "withBackground", mode |-> m]
    /\ useAutoBackground' = FALSE
    /\ built' = built + 1
    /\ UNCHANGED <<fpc, design, autoBackgroundOptions, runVars>>

\* withAutoBackground(options)
WithAutoBackground ==
    /\ fpc = "building"
    /\ built < MaxBuilderCalls
    /\ \E options \in AutoBackgroundOptions :
           /\ autoBackgroundOptions' =
                  [direction |-> OptionOr(options, "direction", "lightToDark"),
                   style |-> OptionOr(options, "style", "emphasized")]
           /\ lastModeCall' = [call |-> "withAutoBackground", options |-> options]
    /\ useAutoBackground' = TRUE
    /\ backgroundMode' = Null
    /\ built' = built + 1
    /\ UNCHANGED <<fpc, design, runVars>>

\* generate or generateBuffer up to its first await: the design check, the
\* canvas, the call of prepareRenderContext.
Enters(name) ==
    /\ fpc = "building"
    /\ entry' = name
    /\ IF design = Null
       THEN /\ fpc' = "threw"
            /\ generateError' = "Design is required. Use withDesign() to set a design."
            /\ UNCHANGED <<posterCtx, steps>>
       ELSE /\ posterCtx' = NewContext(design.config.width, design.config.height)
            /\ steps' = <<"prepareRenderContext">>
            /\ fpc' = "preparing"
            /\ UNCHANGED generateError
    /\ UNCHANGED <<design, backgroundMode, useAutoBackground, autoBackgroundOptions,
                   lastModeCall, built, renderContext, chosen, outputFile, returned>>

Generate == Enters("generate")

GenerateBuffer == Enters("generateBuffer")

\* prepareRenderContext rejects (the data is not valid, or the cover does
\* not decode): the error leaves generate.
PrepareRejects ==
    /\ fpc = "preparing"
    /\ \E message \in {"validateData", "loadImage"} : generateError' = message
    /\ fpc' = "threw"
    /\ UNCHANGED <<design, backgroundMode, useAutoBackground, autoBackgroundOptions,
                   lastModeCall, built, entry, renderContext, chosen, posterCtx, steps,
                   outputFile, returned>>

\* prepareRenderContext resolves: the background is settled and its render
\* called.
PrepareResolves ==
    /\ fpc = "preparing"
    /\ \E rc \in RenderContexts : renderContext' = rc
    /\ LET this == [backgroundMode |-> backgroundMode,
                    useAutoBackground |-> useAutoBackground,
                    autoBackgroundOptions |-> autoBackgroundOptions]
       IN  chosen' = IF entry = "generate"
                     THEN generateBackground(this, renderContext')
                     ELSE generateBufferBackground(this, renderContext')
    /\ steps' = Append(steps, "render")
    /\ fpc' = "rendering"
    /\ UNCHANGED <<design, backgroundMode, useAutoBackground, autoBackgroundOptions,
                   lastModeCall, built, entry, posterCtx, outputFile, returned,
                   generateError>>

\* The outcome of the background's render on the poster canvas.
RenderOutcome ==
    BackgroundRender(chosen, posterCtx, design.config.width, design.config.height)

\* background.render rejects: the error leaves generate.
RenderRejects ==
    /\ fpc = "rendering"
    /\ RenderOutcome.threw
    /\ generateError' = RenderOutcome.error
    /\ posterCtx' = RenderOutcome.ctx
    /\ fpc' = "threw"
    /\ UNCHANGED <<design, backgroundMode, useAutoBackground, autoBackgroundOptions,
                   lastModeCall, built, entry, renderContext, chosen, steps,
                   outputFile, returned>>

\* background.render resolves: design.renderContent is called.
RenderResolves ==
    /\ fpc = "rendering"
    /\ ~ RenderOutcome.threw
    /\ posterCtx' = RenderOutcome.ctx
    /\ steps' = Append(steps, "renderContent")
    /\ fpc' = "drawing"
    /\ UNCHANGED <<design, backgroundMode, useAutoBackground, autoBackgroundOptions,
                   lastModeCall, built, entry, renderContext, chosen, outputFile,
                   returned, generateError>>

\* renderContent rejects: the error leaves generate.
ContentRejects ==
    /\ fpc = "drawing"
    /\ generateError' = "renderContent"
    /\ fpc' = "threw"
    /\ UNCHANGED <<design, backgroundMode, useAutoBackground, autoBackgroundOptions,
                   lastModeCall, built, entry, renderContext, chosen, posterCtx, steps,
                   outputFile, returned>>

\* Mutant: the content is painted first, the background over it.
RenderContentUnderBackground(c, width, height) ==
    [c EXCEPT !.calls =
        <<[op |-> "renderContent", fillStyle |-> c.fillStyle,
           x |-> FInt(0), y |-> FInt(0), w |-> FInt(width), h |-> FInt(height)]>> \o @]

\* What design.renderContent paints, taken as one drawing over the whole
\* canvas.
RenderContent(c, width, height) ==
    PaintCall(c, [op |-> "renderContent", fillStyle |-> c.fillStyle,
                  x |-> FInt(0), y |-> FInt(0), w |-> FInt(width), h |-> FInt(height)],
              FInt(0), FInt(0), FInt(width), FInt(height))

\* renderContent resolves: the canvas is serialized, and written to the
\* output path by generate, returned by generateBuffer.
ContentResolves ==
    /\ fpc = "drawing"
    /\ posterCtx' = RenderContent(posterCtx, design.config.width, design.config.height)
    /\ LET buffer == [png |-> posterCtx'.calls]
       IN  IF entry = "generate"
           THEN /\ outputFile' = buffer
                /\ steps' = steps \o <<"toBuffer", "writeFileSync">>
                /\ UNCHANGED returned
           ELSE /\ returned' = buffer
                /\ steps' = Append(steps, "toBuffer")
                /\ UNCHANGED outputFile
    /\ fpc' = "done"
    /\ UNCHANGED <<design, backgroundMode, useAutoBackground, autoBackgroundOptions,
                   lastModeCall, built, entry, renderContext, chosen, generateError>>

(***************************************************************************)
(* Song1Design.renderContent and SpotifySongDesign.renderContent           *)
(* (src/src/designs/song-1.ts, src/src/designs/spotify-song.ts)            *)
(***************************************************************************)

\* One element of a poster: its name and the method that draws it.
Element(name, by) == [name |-> name, by |-> by]

\* The song data as far as renderContent branches on it: trackNumber and
\* releaseDate given or not, progress zero or not.
SongDatas ==
    [trackNumber : BOOLEAN, releaseDate : BOOLEAN, progress : BOOLEAN]

\* The elements of Song1Design.renderContent in the order of its statements.
Song1Elements(data) ==
    <<Element("cover", "drawRoundedImageWithShadow"),
      Element("title", "fillText"),
      Element("artist", "fillText")>>
    \o (IF data.trackNumber THEN <<Element("trackNumber", "fillText")>> ELSE <<>>)
    \o <<Element("progressBar", "drawRoundedRect")>>
    \o (IF data.progress THEN <<Element("progressIndicator", "drawRoundedRect")>>
        ELSE <<>>)
    \o <<Element("currentTime", "fillText"),
         Element("remainingTime", "fillText"),
         Element("icons", "drawColoredSVG"),
         Element("copyright", "fillText")>>
    \o (IF data.releaseDate THEN <<Element("releaseDate", "fillText")>> ELSE <<>>)

\* The elements of SpotifySongDesign.renderContent in the order of its
\* statements.
SpotifySongElements(data) ==
    <<Element("cover", "drawRoundedImageWithShadow"),
      Element("headphonesIcon", "drawColoredSVG"),
      Element("headphonesText", "fillText"),
      Element("trackText", "fillText"),
      Element("spotifyCode", "drawSpotifyCode"),
      Element("title", "fillText"),
      Element("artist", "fillText"),
      Element("progressBar", "drawRoundedRect")>>
    \o (IF data.progress THEN <<Element("progressIndicator", "drawRoundedRect")>>
        ELSE <<>>)
    \o <<Element("currentTime", "fillText"),
         Element("remainingTime", "fillText"),
         Element("icons", "drawColoredSVG")>>

Elements(name, data) ==
    IF name = "Song Design #1" THEN Song1Elements(data)
    ELSE SpotifySongElements(data)

\* A call on ctx that paints, made while the element is drawn.
Painted(name, op) == [element |-> name, op |-> op]

ContentIdle ==
    /\ cpc = "idle"
    /\ contentDesign = Null
    /\ songData = Null
    /\ element = 0
    /\ loads = <<>>
    /\ contentCalls = <<>>
    /\ warnings = <<>>
    /\ contentError = Null

ContentInit ==
    /\ cpc = "drawing"
    /\ contentDesign \in {"Song Design #1", "Spotify Song Design"}
    /\ songData \in SongDatas
    /\ element = 1
    /\ loads = <<>>
    /\ contentCalls = <<>>
    /\ warnings = <<>>
    /\ contentError = Null

\* The statement renderContent is at.
Current == Elements(contentDesign, songData)[element]

At(by) ==
    /\ cpc = "drawing"
    /\ element <= Len(Elements(contentDesign, songData))
    /\ Current.by = by

\* drawRoundedImageWithShadow: loadImage outside any try; the shadow is
\* filled, then the image is drawn inside the clip.
DrawRoundedImageWithShadow ==
    /\ At("drawRoundedImageWithShadow")
    /\ \E outcome \in {"loadImage rejects", "drawn"} :
          /\ loads' = Append(loads, [element |-> Current.name, outcome |-> outcome])
          /\ IF outcome = "drawn"
             THEN /\ contentCalls' = contentCalls \o
                        <<Painted(Current.name, "fill"),
                          Painted(Current.name, "drawImage")>>
                  /\ element' = element + 1
                  /\ UNCHANGED <<cpc, contentError>>
             ELSE /\ cpc' = "rejected"
                  /\ contentError' = [error |-> "loadImage"]
                  /\ UNCHANGED <<contentCalls, element>>
    /\ UNCHANGED <<contentDesign, songData, warnings>>

\* drawColoredSVG: readFile, loadImage and drawImage inside one try whose
\* catch calls console.warn.
DrawColoredSVG ==
    /\ At("drawColoredSVG")
    /\ \E outcome \in {"readFile rejects", "loadImage rejects", "drawn"} :
          /\ loads' = Append(loads, [element |-> Current.name, outcome |-> outcome])
          /\ IF outcome = "drawn"
             THEN /\ contentCalls' = Append(contentCalls,
                                            Painted(Current.name, "drawImage"))
                  /\ UNCHANGED warnings
             ELSE /\ warnings' = Append(warnings,
                        [element |-> Current.name, message |-> "Failed to load SVG"])
                  /\ UNCHANGED contentCalls
    /\ element' = element + 1
    /\ UNCHANGED <<cpc, contentDesign, songData, contentError>>

\* The calls of drawSpotifyCode that paint, by how far its try block gets:
\* the border is stroked by drawRoundedRect before loadImage is awaited.
SpotifyCodeCalls(name, outcome) ==
    IF outcome = "getTransparentSpotifyCode rejects" THEN <<>>
    ELSE IF outcome = "loadImage rejects" THEN <<Painted(name, "stroke")>>
    ELSE <<Painted(name, "stroke"), Painted(name, "drawImage")>>

\* drawSpotifyCode: the download, the border, loadImage and drawImage inside
\* one try whose catch calls console.warn.
DrawSpotifyCode ==
    /\ At("drawSpotifyCode")
    /\ \E outcome \in {"getTransparentSpotifyCode rejects", "loadImage rejects",
                       "drawn"} :
          /\ loads' = Append(loads, [element |-> Current.name, outcome |-> outcome])
          /\ contentCalls' = contentCalls \o SpotifyCodeCalls(Current.name, outcome)
          /\ warnings' = IF outcome = "drawn" THEN warnings
                         ELSE Append(warnings,
                                     [element |-> Current.name,
                                      message |-> "Failed to load Spotify code"])
    /\ element' = element + 1
    /\ UNCHANGED <<cpc, contentDesign, songData, contentError>>

\* ctx.fillText(...) of a text element.
FillText ==
    /\ At("fillText")
    /\ contentCalls' = Append(contentCalls, Painted(Current.name, "fillText"))
    /\ element' = element + 1
    /\ UNCHANGED <<cpc, contentDesign, songData, loads, warnings, contentError>>

\* drawRoundedRect(ctx, ..., fillColor) of the progress bar and indicator.
DrawRoundedRect ==
    /\ At("drawRoundedRect")
    /\ contentCalls' = Append(contentCalls, Painted(Current.name, "fill"))
    /\ element' = element + 1
    /\ UNCHANGED <<cpc, contentDesign, songData, loads, warnings, contentError>>

\* The end of renderContent's body: the promise resolves.
RenderContentResolves ==
    /\ cpc = "drawing"
    /\ element > Len(Elements(contentDesign, songData))
    /\ cpc' = "done"
    /\ UNCHANGED <<contentDesign, songData, element, loads, contentCalls, warnings,
                   contentError>>

(***************************************************************************)
(* Specifications: one per component, the other components idle            *)
(***************************************************************************)

InitText == TextInit /\ PaletteIdle /\ BlurIdle /\ TrackIdle /\ BackgroundIdle
    /\ HexIdle /\ RenderIdle /\ FrameifyIdle /\ ContentIdle
OthersText == <<paletteVars, blurVars, trackVars, backgroundVars, hexVars
    , renderVars, frameifyVars, contentVars>>
NextText == TruncateText /\ UNCHANGED OthersText
SpecText == InitText /\ [][NextText]_vars

InitPalette == PaletteInit /\ TextIdle /\ BlurIdle /\ TrackIdle
    /\ BackgroundIdle /\ HexIdle /\ RenderIdle /\ FrameifyIdle /\ ContentIdle
OthersPalette == <<textVars, blurVars, trackVars, backgroundVars, hexVars
    , renderVars, frameifyVars, contentVars>>
NextPalette == ExtractColorPalette /\ UNCHANGED OthersPalette
SpecPalette == InitPalette /\ [][NextPalette]_vars

InitBlur == BlurInit /\ TextIdle /\ PaletteIdle /\ TrackIdle /\ BackgroundIdle
    /\ HexIdle /\ RenderIdle /\ FrameifyIdle /\ ContentIdle
OthersBlur == <<textVars, paletteVars, trackVars, backgroundVars, hexVars
    , renderVars, frameifyVars, contentVars>>
NextBlur ==
    \/ ApplyBlurStart /\ UNCHANGED OthersBlur
    \/ ApplyBlurPass /\ UNCHANGED OthersBlur
    \/ ApplyBlurFinish /\ UNCHANGED OthersBlur
SpecBlur == InitBlur /\ [][NextBlur]_vars

InitTracks == TrackInit /\ TextIdle /\ PaletteIdle /\ BlurIdle
    /\ BackgroundIdle /\ HexIdle /\ RenderIdle /\ FrameifyIdle /\ ContentIdle
OthersTracks == <<textVars, paletteVars, blurVars, backgroundVars, hexVars
    , renderVars, frameifyVars, contentVars>>
NextTracks ==
    \/ CalculateTrackListingBoundary /\ UNCHANGED OthersTracks
    \/ DrawTrackListing /\ UNCHANGED OthersTracks
SpecTracks == InitTracks /\ [][NextTracks]_vars

InitBackground == BackgroundInit /\ TextIdle /\ PaletteIdle /\ BlurIdle
    /\ TrackIdle /\ HexIdle /\ RenderIdle /\ FrameifyIdle /\ ContentIdle
OthersBackground == <<textVars, paletteVars, blurVars, trackVars, hexVars
    , renderVars, frameifyVars, contentVars>>
NextBackground ==
    \/ NewGradientTopBackground /\ UNCHANGED OthersBackground
    \/ NewGradientBottomBackground /\ UNCHANGED OthersBackground
    \/ NewCustomGradientBackground /\ UNCHANGED OthersBackground
    \/ NewRadialGradientBackground /\ UNCHANGED OthersBackground
SpecBackground == InitBackground /\ [][NextBackground]_vars

InitHex == HexInit /\ TextIdle /\ PaletteIdle /\ BlurIdle /\ TrackIdle
    /\ BackgroundIdle /\ RenderIdle /\ FrameifyIdle /\ ContentIdle
OthersHex == <<textVars, paletteVars, blurVars, trackVars, backgroundVars
    , renderVars, frameifyVars, contentVars>>
NextHex ==
    \/ RgbToHex /\ UNCHANGED OthersHex
    \/ HexToRgbBack /\ UNCHANGED OthersHex
    \/ HexToRgb /\ UNCHANGED OthersHex
    \/ RgbToHexBack /\ UNCHANGED OthersHex
SpecHex == InitHex /\ [][NextHex]_vars

InitRender == RenderInit /\ TextIdle /\ PaletteIdle /\ BlurIdle /\ TrackIdle
    /\ BackgroundIdle /\ HexIdle /\ FrameifyIdle /\ ContentIdle
OthersRender == <<textVars, paletteVars, blurVars, trackVars, backgroundVars
    , hexVars, frameifyVars, contentVars>>
NextRender ==
    \/ RenderBlackBackground /\ UNCHANGED OthersRender
    \/ RenderWhiteBackground /\ UNCHANGED OthersRender
    \/ RenderSolidColorBackground /\ UNCHANGED OthersRender
    \/ RenderGradientTopBackground /\ UNCHANGED OthersRender
    \/ RenderGradientBottomBackground /\ UNCHANGED OthersRender
    \/ RenderCustomGradientBackground /\ UNCHANGED OthersRender
    \/ RenderRadialGradientBackground /\ UNCHANGED OthersRender
    \/ RenderImageBackground /\ UNCHANGED OthersRender
    \/ RenderBlurredAlbumCoverBackground /\ UNCHANGED OthersRender
    \/ RenderAlbumColorPaletteBackground /\ UNCHANGED OthersRender
    \/ RenderAlbumColorPaletteBackgroundCore /\ UNCHANGED OthersRender
SpecRender == InitRender /\ [][NextRender]_vars

InitFrameify == FrameifyInit /\ TextIdle /\ PaletteIdle /\ BlurIdle
    /\ TrackIdle /\ BackgroundIdle /\ HexIdle /\ RenderIdle /\ ContentIdle
OthersFrameify == <<textVars, paletteVars, blurVars, trackVars, backgroundVars
    , hexVars, renderVars, contentVars>>
NextFrameify ==
    \/ WithDesign /\ UNCHANGED OthersFrameify
    \/ WithBackground /\ UNCHANGED OthersFrameify
    \/ WithAutoBackground /\ UNCHANGED OthersFrameify
    \/ Generate /\ UNCHANGED OthersFrameify
    \/ GenerateBuffer /\ UNCHANGED OthersFrameify
    \/ PrepareRejects /\ UNCHANGED OthersFrameify
    \/ PrepareResolves /\ UNCHANGED OthersFrameify
    \/ RenderRejects /\ UNCHANGED OthersFrameify
    \/ RenderResolves /\ UNCHANGED OthersFrameify
    \/ ContentRejects /\ UNCHANGED OthersFrameify
    \/ ContentResolves /\ UNCHANGED OthersFrameify
SpecFrameify == InitFrameify /\ [][NextFrameify]_vars

InitContent == ContentInit /\ TextIdle /\ PaletteIdle /\ BlurIdle /\ TrackIdle
    /\ BackgroundIdle /\ HexIdle /\ RenderIdle /\ FrameifyIdle
OthersContent == <<textVars, paletteVars, blurVars, trackVars, backgroundVars
    , hexVars, renderVars, frameifyVars>>
NextContent ==
    \/ DrawRoundedImageWithShadow /\ UNCHANGED OthersContent
    \/ DrawColoredSVG /\ UNCHANGED OthersContent
    \/ DrawSpotifyCode /\ UNCHANGED OthersContent
    \/ FillText /\ UNCHANGED OthersContent
    \/ DrawRoundedRect /\ UNCHANGED OthersContent
    \/ RenderContentResolves /\ UNCHANGED OthersContent
SpecContent == InitContent /\ [][NextContent]_vars

(***************************************************************************)
(* Claims on truncateText                                                  *)
(***************************************************************************)

\* C6: whenever the text as given already fits the budget
\* (measure(text) <= maxWidth), truncateText returns the text itself,
\* character for character, with no ellipsis appended.
C6_FittingTextUnchanged ==
    (tpc = "done" /\ Measure(ctx, text) <= maxWidth) => truncResult = text

\* A non-empty text that fits exactly has been handed to truncateText.
C6_Witness ==
    /\ tpc = "done"
    /\ Len(text) > 0
    /\ Measure(ctx, text) = maxWidth

\* Not even the first character followed by the ellipsis fits.
Degenerate ==
    \/ text = <<>>
    \/ Measure(ctx, <<text[1]>> \o Ellipsis) > maxWidth

\* C7: the measured width of the returned string, ellipsis included, never
\* exceeds maxWidth, except in the degenerate case where not even one
\* character plus "..." fits; there the result is the ellipsis alone or the
\* empty string.
C7_ResultFitsBudget ==
    tpc = "done" =>
        \/ Measure(ctx, truncResult) <= maxWidth
        \/ Degenerate /\ truncResult \in {Ellipsis, <<>>}

\* A text that did not fit was cut to a non-empty prefix plus the ellipsis.
C7_Witness ==
    /\ tpc = "done"
    /\ Measure(ctx, text) > maxWidth
    /\ Len(truncResult) > Len(Ellipsis)
    /\ Len(truncResult) < Len(text)

\* The longest prefix of the text that fits together with the ellipsis,
\* the empty prefix if none does.
LongestFittingPrefix ==
    LET fits == {n \in 0 .. Len(text) :
                    Measure(ctx, SubSeq(text, 1, n) \o Ellipsis) <= maxWidth}
    IN  IF fits = {} THEN <<>>
        ELSE SubSeq(text, 1, CHOOSE n \in fits : \A m \in fits : m <= n)

IsQuickFoxCase ==
    /\ ctx.font = MonoFont
    /\ text = TheQuickBrownFox
    /\ maxWidth = Measure(ctx, TheQuick \o Ellipsis)

\* C8: when the text does not fit, truncateText returns p + "..." with p the
\* longest prefix such that measure(p + "...") <= maxWidth (p empty if none
\* fits); with the monospace font, "The Quick Brown Fox" against the width
\* of "The Quick..." yields exactly "The Quick...".
C8_LongestPrefixPlusEllipsis ==
    tpc = "done" =>
        /\ Measure(ctx, text) > maxWidth =>
               truncResult = LongestFittingPrefix \o Ellipsis
        /\ IsQuickFoxCase => truncResult = TheQuick \o Ellipsis

\* The "The Quick Brown Fox" call has returned.
C8_Witness ==
    /\ tpc = "done"
    /\ IsQuickFoxCase
    /\ Len(truncResult) = 12

\* C24: for the empty input string and every maxWidth, negative ones
\* included, truncateText returns the empty string, or the ellipsis alone
\* and that only when the ellipsis fits (measure("...") <= maxWidth).
C24_EmptyTextStaysEmpty ==
    (tpc = "done" /\ text = <<>>) =>
        \/ truncResult = <<>>
        \/ truncResult = Ellipsis /\ Measure(ctx, Ellipsis) <= maxWidth

(***************************************************************************)
(* Claims on extractColorPalette                                           *)
(***************************************************************************)

\* Three times the lightness mean(r, g, b) of a returned hex colour.
Lightness3(hex) == hexToRgb(hex).r + hexToRgb(hex).g + hexToRgb(hex).b

\* C1: for every decoded image and every requested count >= 0 (0 and 1
\* included), extractColorPalette returns at most count hex colours.
C1_AtMostCount ==
    ppc = "done" => Len(palette) <= numColors

\* C2: the returned palette is ordered lightest first: the lightness of
\* each returned #RRGGBB colour (of the clamped channels it holds) is at
\* least that of its successor.
C2_LightestFirst ==
    ppc = "done" =>
        \A k \in 1 .. Len(palette) - 1 :
            Lightness3(palette[k]) >= Lightness3(palette[k + 1])

\* Every gap between the lightness of adjacent returned colours is > 20.
GapsExceed20 ==
    \A k \in 1 .. Len(palette) - 1 :
        Abs(Lightness3(palette[k]) - Lightness3(palette[k + 1])) > 3 * 20

\* The distinct quantized colours of the qualifying samples, each with its
\* tripled lightness.
QualifyingLightness ==
    LET counts == CountColors(image.data, 0, <<>>)
    IN  {<<counts[k].key, counts[k].key[1] + counts[k].key[2] + counts[k].key[3]>> :
            k \in 1 .. Len(counts)}

\* The qualifying samples hold at least numColors distinct quantized
\* colours whose lightness values differ pairwise by more than 20.
EnoughSpreadColours ==
    \E S \in SUBSET QualifyingLightness :
        /\ Cardinality(S) >= numColors
        /\ \A c \in S : \A d \in S : c # d => Abs(c[2] - d[2]) > 3 * 20

\* C3 as stated: if the qualifying samples contain at least count distinct
\* quantized colours of pairwise lightness difference > 20, every gap
\* between adjacent colours of the returned palette is > 20.
C3_SpreadImpliesGaps ==
    (ppc = "done" /\ EnoughSpreadColours) => GapsExceed20

\* C3 amended: if the diversity scan of the count * 3 most frequent
\* quantized colours, taken most frequent first, itself accepts at least
\* count colours (so that nothing is backfilled), every gap between adjacent
\* colours of the returned palette is > 20.
C3_ScanAcceptedImpliesGaps ==
    (ppc = "done" /\ Len(diverseColors) >= numColors) => GapsExceed20

\* The scan accepted two or more colours, as many as were asked for.
C3_Witness ==
    /\ ppc = "done"
    /\ numColors >= 2
    /\ Len(diverseColors) >= numColors
    /\ Len(palette) >= 2

\* The retained samples of the image: the pixels 0, 10, 20, ... that are
\* neither mostly transparent nor near-black nor near-white.
RetainedSamples ==
    {px \in {SubSeq(image.data, 40 * k + 1, 40 * k + 4) :
                k \in 0 .. (Len(image.data) - 1) \div 40} :
        ~ (\/ px[4] < 128
           \/ (px[1] < 20 /\ px[2] < 20 /\ px[3] < 20)
           \/ (px[1] > 235 /\ px[2] > 235 /\ px[3] > 235))}

\* q is a multiple of 32 nearest to v, and a colour component.
IsNearestLevel(q, v) ==
    /\ q % 32 = 0
    /\ Abs(q - v) <= 16
    /\ q \in 0 .. 255

\* C17: for every retained sample with channel values in 0..255,
\* extractColorPalette quantizes each channel to the nearest multiple of 32,
\* the quantized value is one of at most 8 levels per channel, and it is a
\* valid colour component in 0..255: every tallied colour is such a
\* quantization of a retained sample.
C17_QuantizedChannelsAreComponents ==
    ppc = "done" =>
        \A k \in 1 .. Len(colorsWithLightness) :
            \E px \in RetainedSamples :
                /\ IsNearestLevel(colorsWithLightness[k].r, px[1])
                /\ IsNearestLevel(colorsWithLightness[k].g, px[2])
                /\ IsNearestLevel(colorsWithLightness[k].b, px[3])

\* C18: whenever the diversity scan accepts fewer than count colours, the
\* result is completed with the not-yet-accepted candidates in descending
\* frequency order, and the returned palette has exactly
\* min(count, number of candidate colours) entries, the candidates being
\* the count * 3 most frequent quantized colours; in particular an image
\* with zero qualifying samples yields an empty palette.
C18_BackfillCompletes ==
    ppc = "done" =>
        /\ Len(colorsWithLightness) = Min(numColors * 3, Cardinality(QualifyingLightness))
        /\ Len(diverseColors) < numColors =>
               LET NotAccepted(c) ==
                       ~ \E j \in 1 .. Len(diverseColors) : diverseColors[j] = c
                   rest == SelectSeq(colorsWithLightness, NotAccepted)
                   need == numColors - Len(diverseColors)
               IN  /\ backfilledColors =
                          diverseColors \o SubSeq(rest, 1, Min(need, Len(rest)))
                   /\ Len(palette) = Min(numColors, Len(colorsWithLightness))
        /\ RetainedSamples = {} => palette = <<>>

\* The scan accepted too few colours and the backfill added a colour within
\* 20 of an accepted one.
C18_Witness ==
    /\ ppc = "done"
    /\ Len(diverseColors) < numColors
    /\ Len(backfilledColors) > Len(diverseColors)
    /\ Len(palette) = numColors

(***************************************************************************)
(* Claims on the box blur                                                  *)
(***************************************************************************)

\* The buffer's pixels all hold the RGBA value c.
IsUniform(data, c) == \A k \in 1 .. Len(data) : data[k] = c[((k - 1) % 4) + 1]

\* C4: for a buffer of any width and height >= 1 whose pixels all hold the
\* same RGBA value and any blur radius > 0 (box radii reaching the width or
\* the height included), applyBlur returns a buffer whose every pixel
\* holds that value, up to 1 of rounding.
C4_UniformStaysUniform ==
    \A c \in UniformColours :
        (bpc = "done" /\ radius.n > 0 /\ IsUniform(imageData.data, c)) =>
            /\ Len(output.data) = Len(imageData.data)
            /\ \A k \in 1 .. Len(output.data) :
                   Abs(output.data[k] - c[((k - 1) % 4) + 1]) <= 1

Clamp(v, lo, hi) == Min(hi, Max(lo, v))

RECURSIVE SumOver(_, _, _)
SumOver(f, lo, hi) == IF lo > hi THEN 0 ELSE f[lo] + SumOver(f, lo + 1, hi)

\* The mean of 2r + 1 bytes of sum total, rounded to the nearest integer.
RoundedMean(total, r) == (2 * total + (2 * r + 1)) \div (2 * (2 * r + 1))

\* The clamp-to-edge box blur along the rows: each output pixel is the
\* mean over columns x - r .. x + r of its own row, a column out of range
\* replaced by the row's first or last pixel.
ClampToEdgeHorizontal(data, w, h, r) ==
    [k \in 1 .. Len(data) |->
        LET p == (k - 1) \div 4
            c == (k - 1) % 4
            x == p % w
            y == p \div w
        IN  RoundedMean(SumOver([d \in -r .. r |->
                data[(y * w + Clamp(x + d, 0, w - 1)) * 4 + c + 1]], -r, r), r)]

\* The same along the columns.
ClampToEdgeVertical(data, w, h, r) ==
    [k \in 1 .. Len(data) |->
        LET p == (k - 1) \div 4
            c == (k - 1) % 4
            x == p % w
            y == p \div w
        IN  RoundedMean(SumOver([d \in -r .. r |->
                data[(Clamp(y + d, 0, h - 1) * w + x) * 4 + c + 1]], -r, r), r)]

\* The input is dark but for one bright pixel in the corner (px, py).
IsCornerCase(px, py) ==
    /\ px \in {0, imageData.width - 1}
    /\ py \in {0, imageData.height - 1}
    /\ imageData = OneBrightPixel(imageData.width, imageData.height, px, py)

\* C5: the box blur clamps to the edge and never wraps: for every width and
\* height >= 1 and every box radius r >= 0 (width <= 2r included), the
\* horizontal pass gives each pixel the mean over columns x-r..x+r of its
\* own row with the columns out of range replaced by the row's first or
\* last pixel, the vertical pass likewise per column; so after the first
\* box blur of a buffer with one bright pixel in a corner, every pixel
\* outside that pixel's window still holds the background.
C5_ClampToEdge ==
    (bpc \in {"loop", "done"} /\ pass >= 1) =>
        LET r == boxes[pass]
            w == imageData.width
            h == imageData.height
        IN  /\ temp = ClampToEdgeHorizontal(target, w, h, r)
            /\ source = ClampToEdgeVertical(temp, w, h, r)
            /\ \A px \in 0 .. w - 1, py \in 0 .. h - 1 :
                   (pass = 1 /\ IsCornerCase(px, py)) =>
                       \A x \in 0 .. w - 1, y \in 0 .. h - 1 :
                           (Abs(x - px) > r \/ Abs(y - py) > r) =>
                               \A c \in 0 .. 3 :
                                   source[(y * w + x) * 4 + c + 1] = Background[c + 1]

\* C13: for every blur radius <= 0 (zero and negative), applyBlur either
\* raises an error or returns a buffer equal to its input pixel for pixel;
\* it never returns a blurred buffer. (applyBlur has no throw statement and
\* its loops end for every radius, so the call always returns.)
C13_NonPositiveRadiusIsNoOp ==
    (bpc = "done" /\ radius.n <= 0) =>
        /\ output.width = imageData.width
        /\ output.height = imageData.height
        /\ output.data = imageData.data


\* C30: boxesForGaussian(sigma, 3) returns exactly three non-negative
\* integer box radii: m times (wl - 1) / 2 first, then 3 - m times
\* (wu - 1) / 2, where wl is odd, wl <= sqrt(12 * sigma^2 / 3 + 1) < wl + 2
\* = wu and 0 <= m <= 3; for every integer sigma >= 1 the result is
\* [sigma - 1, sigma - 1, sigma] (wl = 2 * sigma - 1, m = 2), and for
\* sigma = 0 it is [0, 0, 0].
C30_BoxRadii ==
    bpc \in {"loop", "done"} =>
        /\ Len(boxes) = 3
        /\ \A k \in 1 .. 3 : boxes[k] \in Nat
        /\ \E wl \in 1 .. 2 * boxes[1] + 1, m \in 0 .. 3 :
               /\ wl % 2 = 1
               /\ wl * wl * radius.d * radius.d
                      <= 4 * radius.n * radius.n + radius.d * radius.d
               /\ (wl + 2) * (wl + 2) * radius.d * radius.d
                      > 4 * radius.n * radius.n + radius.d * radius.d
               /\ boxes = [k \in 1 .. 3 |->
                               IF k <= m THEN (wl - 1) \div 2
                               ELSE ((wl + 2) - 1) \div 2]
               /\ (radius.d = 1 /\ radius.n >= 1) =>
                      wl = 2 * radius.n - 1 /\ m = 2
        /\ (radius.d = 1 /\ radius.n >= 1) =>
               boxes = <<radius.n - 1, radius.n - 1, radius.n>>
        /\ radius.n = 0 => boxes = <<0, 0, 0>>

\* applyBlur has computed the box radii of a radius between 1 and 2, one
\* narrower box before two wider ones (m = 1), and has returned.
C30_Witness ==
    /\ bpc = "done"
    /\ radius.d > 1
    /\ radius.n > radius.d
    /\ boxes = <<0, 1, 1>>

\* C25: applyBlur never writes to the buffer of the ImageData it is
\* given, whose bytes stay as they were; in each of the three box-blur
\* passes, and in each of its two halves, the buffer read and the buffer
\* written are distinct; the first pass reads a copy of the input, pass k
\* reads exactly what pass k - 1 wrote, and the ImageData returned holds
\* what the third pass wrote.
C25_BlurLeavesInputAlone ==
    bpc \in {"loop", "done"} =>
        /\ Len(blurLog) = 2 * pass
        /\ \A i \in 1 .. Len(blurLog) :
               /\ blurLog[i].writes # DataBuffer
               /\ blurLog[i].reads # blurLog[i].writes
               /\ i > 1 => /\ blurLog[i].reads = blurLog[i - 1].writes
                           /\ blurLog[i].read = blurLog[i - 1].written
        /\ pass >= 1 => /\ blurLog[1].reads # DataBuffer
                        /\ blurLog[1].read = imageData.data
        /\ bpc = "done" =>
               /\ pass = 3
               /\ output.data = blurLog[6].written
               /\ output.width = imageData.width
               /\ output.height = imageData.height

\* A blur of three passes that changed the picture has returned.
C25_Witness ==
    /\ bpc = "done"
    /\ Len(blurLog) = 6
    /\ output.data # imageData.data
    /\ blurLog[3].read # blurLog[1].read

(***************************************************************************)
(* Claims on the track listing                                             *)
(***************************************************************************)

\* The widest of the first k fillText calls, measured as drawn.
RECURSIVE WidestDrawn(_)
WidestDrawn(k) ==
    IF k = 0 THEN 0
    ELSE Max(Measure(trackCtx, fillTexts[k].text), WidestDrawn(k - 1))

\* The text is the label, or a prefix of it followed by the ellipsis.
IsLabelOrCut(txt, label) ==
    \/ txt = label
    \/ \E k \in 0 .. Len(label) : txt = SubSeq(label, 1, k) \o Ellipsis

\* C9: for n track titles drawTrackListing draws exactly the tracks
\* 0 .. min(n, 20) - 1: track i < 10 at x = startX on row i, track
\* 10 <= i < 20 at the second column's x (startX + min(width of the widest
\* first-column entry, column width) + 50px) on row i - 10, at
\* y = startY + row * lineHeight, each labelled "{i+1}. {title}" (cut to
\* the column width); tracks from index 20 on are not drawn, without error.
C9_TwentyTracksTwoColumns ==
    kpc = "drawn" =>
        LET n == Min(Len(tracks), 20)
            secondX == startX
                         + Min(WidestDrawn(Min(Len(tracks), 10)), MaxColumnWidth(sectionWidth))
                         + Px(50)
        IN  /\ Len(fillTexts) = n
            /\ \A i \in 0 .. n - 1 :
                   /\ fillTexts[i + 1].x = (IF i < 10 THEN startX ELSE secondX)
                   /\ fillTexts[i + 1].y =
                          startY + (IF i < 10 THEN i ELSE i - 10) * lineHeight
                   /\ IsLabelOrCut(fillTexts[i + 1].text,
                          ToString10(i + 1) \o <<".", " ">> \o tracks[i + 1])

\* A listing of more than 20 tracks has been drawn.
C9_Witness ==
    /\ kpc = "drawn"
    /\ Len(tracks) > 20
    /\ Len(fillTexts) = 20

\* The rightmost x any of the first k fillText calls reaches, the text
\* aligned left at its x; start if there is none.
RECURSIVE RightmostDrawn(_, _)
RightmostDrawn(k, start) ==
    IF k = 0 THEN start
    ELSE Max(fillTexts[k].x + Measure(trackCtx, fillTexts[k].text),
             RightmostDrawn(k - 1, start))

\* C23: calculateTrackListingBoundary draws nothing and returns exactly
\* the rightmost x-extent of the text drawTrackListing draws for the same
\* tracks, start position and section width, the second column drawn at
\* startX + min(first column's width, (sectionWidth - 50) / 2) + 50; with
\* zero tracks it returns startX.
C23_BoundaryIsRightmostDrawn ==
    /\ kpc = "measured" =>
           /\ fillTexts = <<>>
           /\ Len(tracks) = 0 => trackBoundary = startX
    /\ kpc = "drawn" =>
           /\ trackBoundary = RightmostDrawn(Len(fillTexts), startX)
           /\ \A k \in 11 .. Len(fillTexts) :
                  fillTexts[k].x =
                      startX + Min(RightmostDrawn(10, startX) - startX,
                                   (sectionWidth - Px(50)) \div 2) + Px(50)

\* A listing in two columns has been drawn, its text ending left of the
\* end of the section.
C23_Witness ==
    /\ kpc = "drawn"
    /\ Len(tracks) > 10
    /\ trackBoundary > fillTexts[11].x
    /\ trackBoundary < startX + sectionWidth

\* C29: the track listing never leaves its section: whenever "..." alone
\* fits in a column ((sectionWidth - 50) / 2 >= measure("...")), every
\* entry drawn in the first column is at most (sectionWidth - 50) / 2 wide,
\* every entry of the second column is drawn at least 50px right of the
\* end of every entry of the first, and the boundary returned by
\* calculateTrackListingBoundary is at most startX + sectionWidth.
C29_ListingStaysInSection ==
    (/\ kpc = "drawn"
     /\ (sectionWidth - Px(50)) \div 2 >= Measure(trackCtx, Ellipsis)) =>
        /\ \A j \in 1 .. Min(10, Len(fillTexts)) :
               /\ Measure(trackCtx, fillTexts[j].text)
                      <= (sectionWidth - Px(50)) \div 2
               /\ \A k \in 11 .. Len(fillTexts) :
                      fillTexts[k].x >=
                          fillTexts[j].x + Measure(trackCtx, fillTexts[j].text)
                              + Px(50)
        /\ trackBoundary <= startX + sectionWidth

\* A listing in two columns has been drawn in a section in which "..."
\* fits in a column, with an entry cut short in each column.
C29_Witness ==
    /\ kpc = "drawn"
    /\ (sectionWidth - Px(50)) \div 2 >= Measure(trackCtx, Ellipsis)
    /\ \E j \in 1 .. 10, k \in 11 .. Len(fillTexts) :
           /\ fillTexts[j].text # TrackText(tracks, j - 1)
           /\ fillTexts[k].text # TrackText(tracks, k - 1)

(***************************************************************************)
(* Claims on the gradient constructors                                     *)
(***************************************************************************)

\* C10: constructing GradientTopBackground, GradientBottomBackground or
\* RadialGradientBackground with fewer than 2 colours, or
\* CustomGradientBackground with fewer than 2 stops, throws at construction
\* and leaves no instance to render; constructing each with exactly 2
\* succeeds.
C10_GradientConstructionGuard ==
    gpc \in {"constructed", "threw"} =>
        /\ Len(ctorArgs) < 2 =>
               (gpc = "threw" /\ background = Null /\ thrown # "")
        /\ Len(ctorArgs) = 2 =>
               (gpc = "constructed" /\ thrown = "" /\ background # Null
                    /\ background.kind = ctorKind)

\* A gradient top background was refused its single colour.
C10_Witness ==
    /\ gpc = "threw"
    /\ ctorKind = "GradientTopBackground"
    /\ Len(ctorArgs) = 1

(***************************************************************************)
(* Claims on the hex and RGB conversions                                   *)
(***************************************************************************)

LowercaseHexDigits == {HexDigits[k] : k \in 1 .. 16}

\* The string is '#' followed by exactly 6 lowercase hex digits.
IsLowercaseHex(h) ==
    /\ Len(h) = 7
    /\ h[1] = "#"
    /\ \A k \in 2 .. 7 : h[k] \in LowercaseHexDigits

\* C16: hex and RGB round-trip losslessly: for every RGB colour with
\* integer components in 0..255, rgbToHex yields '#' followed by exactly 6
\* lowercase hex digits and hexToRgb(rgbToHex(c)) = c; for every lowercase
\* #RRGGBB string h, rgbToHex(hexToRgb(h)) = h.
C16_HexRgbRoundTrip ==
    /\ (hpc \in {"formatted", "done"} /\ rgbIn # Null) => IsLowercaseHex(hexOut)
    /\ (hpc = "done" /\ rgbIn # Null) => rgbOut = rgbIn
    /\ (hpc \in {"parsed", "done"} /\ hexIn # Null /\ IsLowercaseHex(hexIn)) =>
           rgbOut # Null
    /\ (hpc = "done" /\ hexIn # Null /\ IsLowercaseHex(hexIn)) => hexOut = hexIn

\* A colour with a one-digit channel went to hex and back.
C16_Witness ==
    /\ hpc = "done"
    /\ rgbIn = [r |-> 10, g |-> 255, b |-> 0]
    /\ hexOut = <<"#", "0", "a", "f", "f", "0", "0">>

(***************************************************************************)
(* Claims on the rendering of the backgrounds                              *)
(***************************************************************************)

\* Every pixel of the canvas has been painted by a call of render.
WholeCanvasPainted ==
    \A p \in DOMAIN renderCtx.pixels : renderCtx.pixels[p] # 0

\* C11: for every background variant (ImageBackground in 'fit' mode with an
\* image whose aspect ratio differs from the surface included), after
\* render(surface, width, height) on a surface with arbitrary prior content
\* every pixel of the width x height area has been painted by render: no
\* pixel keeps its prior content.
C11_RenderPaintsEveryPixel ==
    rpc = "done" => WholeCanvasPainted

\* The call is a fillRect over the whole canvas.
IsWholeFill(call) ==
    /\ call.op = "fillRect"
    /\ FEqual(call.x, FInt(0)) /\ FEqual(call.y, FInt(0))
    /\ FEqual(call.w, FInt(canvasWidth)) /\ FEqual(call.h, FInt(canvasHeight))

\* C12: AlbumColorPaletteBackground.render with an empty palette performs
\* exactly one paint, a solid #000000 fill of the whole area, and raises no
\* error; with a non-empty palette its first paint is a solid #1e1e1e fill
\* of the whole area and its second is the palette gradient fill over the
\* same area.
C12_PaletteBaseThenGradient ==
    (rpc \in {"done", "threw"} /\ renderer.kind = "AlbumColorPaletteBackground") =>
        /\ rpc = "done"
        /\ Len(renderer.extractedColors) = 0 =>
               /\ Len(renderCtx.calls) = 1
               /\ IsWholeFill(renderCtx.calls[1])
               /\ renderCtx.calls[1].fillStyle = Hex000000
        /\ Len(renderer.extractedColors) > 0 =>
               /\ Len(renderCtx.calls) = 2
               /\ IsWholeFill(renderCtx.calls[1])
               /\ renderCtx.calls[1].fillStyle = Hex1e1e1e
               /\ IsWholeFill(renderCtx.calls[2])
               /\ renderCtx.calls[2].fillStyle.type = "linear"
               /\ Len(renderCtx.calls[2].fillStyle.stops) > 0

\* The number is a well-defined fraction of [0, 1].
IsUnitFraction(a) ==
    /\ IsFinite(a)
    /\ ~ FLess(a, FInt(0))
    /\ ~ FLess(FInt(1), a)

\* C19: in 'smooth' style, for every non-empty palette of n colours accepted
\* by the AlbumColorPaletteBackground constructor (n = 1 included), render
\* hands the gradient primitive colour i at position i/(n-1), each position
\* being a well-defined fraction in [0,1]; too few colours is signalled at
\* construction, never as a failure or undefined stop position at render
\* time.
C19_SmoothStopsWellDefined ==
    (/\ rpc \in {"done", "threw"}
     /\ renderer.kind = "AlbumColorPaletteBackground"
     /\ renderer.style = "smooth"
     /\ Len(renderer.extractedColors) > 0) =>
        LET n == Len(renderer.extractedColors)
            colors == IF renderer.direction = "darkToLight"
                      THEN Reverse(renderer.extractedColors)
                      ELSE renderer.extractedColors
            stops == renderCtx.fillStyle.stops
        IN  /\ rpc = "done"
            /\ Len(stops) = n
            /\ \A i \in 0 .. n - 1 :
                   /\ IsUnitFraction(stops[i + 1].offset)
                   /\ FEqual(stops[i + 1].offset, Fraction(i, n - 1))
                   /\ stops[i + 1].color = colors[i + 1]

\* The point (px, py) lies at distance <= r1 from the centre (x1, y1) of
\* the gradient: the squared distance against the squared radius, the
\* denominators multiplied out.
WithinOuterRadius(g, px, py) ==
    LET dx == px * g.x1.d - g.x1.n
        dy == py * g.y1.d - g.y1.n
    IN  (dx * dx * g.y1.d * g.y1.d + dy * dy * g.x1.d * g.x1.d) * g.r1.d * g.r1.d
            <= g.r1.n * g.r1.n * g.x1.d * g.x1.d * g.y1.d * g.y1.d

\* Every point of the canvas area is within the outer radius; the corners
\* are the farthest points.
AreaWithinOuterRadius ==
    \A px \in 0 .. canvasWidth, py \in 0 .. canvasHeight :
        WithinOuterRadius(renderCtx.fillStyle, px, py)

\* The gradient rendered is centred on (width * centerX, height * centerY).
CentredAsGiven ==
    /\ FEqual(renderCtx.fillStyle.x1, FTimes(canvasWidth, renderer.centerX))
    /\ FEqual(renderCtx.fillStyle.y1, FTimes(canvasHeight, renderer.centerY))

\* C20 as stated: RadialGradientBackground achieves full coverage with
\* outer radius max(width, height): for every width, height >= 1 and every
\* centre given as fractions in [0,1] x [0,1], every point of the
\* width x height area lies at distance <= max(width, height) from the
\* centre (width * centerX, height * centerY).
C20_AreaWithinOuterRadius ==
    (rpc = "done" /\ renderer.kind = "RadialGradientBackground") =>
        CentredAsGiven /\ AreaWithinOuterRadius

\* C20 amended: with the default centre (0.5, 0.5) every point of the area
\* lies at distance <= the outer radius from the centre
\* (width / 2, height / 2); for every centre the gradient is centred on
\* (width * centerX, height * centerY) and the whole area is painted, by one
\* fillRect(0, 0, width, height).
C20_CentredAreaWithinOuterRadius ==
    (rpc = "done" /\ renderer.kind = "RadialGradientBackground") =>
        /\ CentredAsGiven
        /\ (/\ FEqual(renderer.centerX, Fraction(1, 2))
            /\ FEqual(renderer.centerY, Fraction(1, 2))) => AreaWithinOuterRadius
        /\ Len(renderCtx.calls) = 1
        /\ IsWholeFill(renderCtx.calls[1])
        /\ WholeCanvasPainted

\* A radial gradient centred on a canvas that is not square was rendered.
C20_Witness ==
    /\ rpc = "done"
    /\ renderer.kind = "RadialGradientBackground"
    /\ renderer.centerX = Fraction(1, 2)
    /\ renderer.centerY = Fraction(1, 2)
    /\ canvasWidth # canvasHeight

(***************************************************************************)
(* Claims on Frameify.generate and Frameify.generateBuffer                 *)
(***************************************************************************)

\* The background is an image background whose image does not decode.
IsUndecodableImageMode(m) ==
    /\ m # Null
    /\ \/ m.kind = "ImageBackground" /\ ~ m.imagePath.decodable
       \/ m.kind = "BlurredAlbumCoverBackground" /\ ~ m.albumCoverPath.decodable

\* The steps generate has taken.
StepsTaken == {steps[i] : i \in 1 .. Len(steps)}

\* C14: when generate reaches the render of an explicitly chosen
\* ImageBackground or BlurredAlbumCoverBackground whose image does not
\* decode, the background rendered is that one and no other, nothing is
\* painted on the canvas, generate ends only by throwing the error of
\* loadImage, renderContent is not run and no output file is written.
C14_DecodeErrorPropagates ==
    (/\ entry = "generate"
     /\ lastModeCall.call = "withBackground"
     /\ IsUndecodableImageMode(lastModeCall.mode)
     /\ "render" \in StepsTaken) =>
        /\ chosen = lastModeCall.mode
        /\ fpc \in {"rendering", "threw"}
        /\ fpc = "threw" => generateError = "loadImage"
        /\ posterCtx.calls = <<>>
        /\ "renderContent" \notin StepsTaken
        /\ "writeFileSync" \notin StepsTaken
        /\ outputFile = Null

\* generate has thrown the decode error of an explicit image background.
C14_Witness ==
    /\ entry = "generate"
    /\ fpc = "threw"
    /\ generateError = "loadImage"
    /\ lastModeCall.call = "withBackground"
    /\ IsUndecodableImageMode(lastModeCall.mode)
    /\ "render" \in StepsTaken

\* The background the builder calls and the extracted palette ask for.
ExpectedBackground ==
    CASE lastModeCall.call = "withBackground" -> lastModeCall.mode
      [] lastModeCall.call = "withAutoBackground" ->
             IF "extractedColors" \in DOMAIN renderContext
                /\ renderContext.extractedColors # <<>>
             THEN [kind |-> "AlbumColorPaletteBackground",
                   extractedColors |-> renderContext.extractedColors,
                   style |-> IF "style" \in DOMAIN lastModeCall.options
                             THEN lastModeCall.options.style ELSE "emphasized",
                   direction |-> IF "direction" \in DOMAIN lastModeCall.options
                                 THEN lastModeCall.options.direction
                                 ELSE "lightToDark"]
             ELSE [kind |-> "BlackBackground"]
      [] lastModeCall.call = "none" -> [kind |-> "BlackBackground"]

\* C15: generate and generateBuffer alike render the explicitly set
\* background if withBackground was the last mode call, an
\* AlbumColorPaletteBackground of the extracted palette with the configured
\* style and direction if withAutoBackground was and the palette is not
\* empty, and a BlackBackground if the palette is empty or missing or no
\* mode call was made; the canvas after the render is that background's.
C15_SameBackgroundBothEntries ==
    (entry \in {"generate", "generateBuffer"} /\ "render" \in StepsTaken) =>
        /\ chosen = ExpectedBackground
        /\ fpc \in {"drawing", "done"} =>
               LET width == design.config.width
                   height == design.config.height
                   rendered == BackgroundRender(ExpectedBackground,
                                   NewContext(width, height), width, height).ctx
               IN  /\ fpc = "drawing" => posterCtx = rendered
                   /\ Len(posterCtx.calls) >= Len(rendered.calls)
                   /\ SubSeq(posterCtx.calls, 1, Len(rendered.calls)) = rendered.calls

\* generateBuffer has returned a poster on the palette gradient of an
\* automatic background with options of its own.
C15_Witness ==
    /\ entry = "generateBuffer"
    /\ fpc = "done"
    /\ lastModeCall.call = "withAutoBackground"
    /\ lastModeCall.options = [direction |-> "darkToLight", style |-> "smooth"]
    /\ chosen.kind = "AlbumColorPaletteBackground"
    /\ returned # Null

(***************************************************************************)
(* Claims on the scaling of image backgrounds                              *)
(***************************************************************************)

\* An ImageBackground has drawn its image in the given mode.
ImageDrawn(mode) ==
    /\ rpc = "done"
    /\ renderer.kind = "ImageBackground"
    /\ renderer.mode = mode

\* The rectangle of the drawImage call.
DrawnRect == renderCtx.calls[Len(renderCtx.calls)]

FAtMost(a, b) == ~ FLess(b, a)

\* The reciprocal of the unit roundoff: one rounding changes a number by
\* at most one part in UnitParts.
UnitParts == Pow2(MantissaBits)

\* a <= side * (1 + u)^2 and a >= side * (1 - u)^2, u the unit roundoff:
\* a is at most, at least, the side but for two roundings.
AtMostRounded(a, side) ==
    a.n * UnitParts * UnitParts <= side * (UnitParts + 1) * (UnitParts + 1) * a.d
AtLeastRounded(a, side) ==
    a.n * UnitParts * UnitParts >= side * (UnitParts - 1) * (UnitParts - 1) * a.d

\* 2 * origin is side - extent but for the rounding of the subtraction.
CentredRounded(origin, extent, side) ==
    LET exact == FSub(FInt(side), extent)
        error == FSub(FTimes(2, origin), exact)
        size(a) == IF a.n < 0 THEN 0 - a.n ELSE a.n
    IN  size(error) * UnitParts * exact.d <= size(exact) * error.d

\* The proportions of the rectangle are those of the image but for one
\* rounding of each side.
ProportionedRounded ==
    LET iw == renderer.imagePath.width
        ih == renderer.imagePath.height
        w == DrawnRect.w
        h == DrawnRect.h
    IN  /\ w.n * h.d * ih * (UnitParts - 1) <= h.n * w.d * iw * (UnitParts + 1)
        /\ h.n * w.d * iw * (UnitParts - 1) <= w.n * h.d * ih * (UnitParts + 1)

\* The rectangle has the proportions of the image and its centre is the
\* centre of the surface, as far as floating-point numbers can tell.
ProportionedAndCentred ==
    /\ ProportionedRounded
    /\ CentredRounded(DrawnRect.x, DrawnRect.w, canvasWidth)
    /\ CentredRounded(DrawnRect.y, DrawnRect.h, canvasHeight)

EmphasizedRendered ==
    /\ rpc = "done"
    /\ renderer.kind = "AlbumColorPaletteBackground"
    /\ renderer.style = "emphasized"
    /\ Len(renderer.extractedColors) > 0
    /\ Len(renderCtx.calls) = 2

\* The colours of the stops the gradient has at the position.
ColoursAt(gradient, position) ==
    {gradient.stops[i].color :
        i \in {j \in 1 .. Len(gradient.stops) : FEqual(gradient.stops[j].offset, position)}}

\* C22: in 'emphasized' style, for every non-empty palette sorted lightest
\* first and both directions, the stop at the light end of the gradient
\* (position 0 for lightToDark, 1 for darkToLight) carries the palette's
\* lightest colour at full opacity and the stop at the dark end carries
\* the palette's darkest colour at alpha 0.5.
C22_EmphasizedEnds ==
    EmphasizedRendered =>
        LET palette_ == renderer.extractedColors
            lightest == palette_[1]
            darkest == Rgba(PrivateHexToRgb(palette_[Len(palette_)]), Fraction(5, 10))
            gradient == renderCtx.calls[2].fillStyle
            lightEnd == IF renderer.direction = "lightToDark" THEN FInt(0) ELSE FInt(1)
            darkEnd == IF renderer.direction = "lightToDark" THEN FInt(1) ELSE FInt(0)
        IN  /\ ColoursAt(gradient, lightEnd) = {lightest}
            /\ ColoursAt(gradient, darkEnd) = {darkest}

(***************************************************************************)
(* Claims on the order of the steps of generate and generateBuffer         *)
(***************************************************************************)

\* The steps of a run that ends well, in order.
StepsInOrder ==
    IF entry = "generate"
    THEN <<"prepareRenderContext", "render", "renderContent", "toBuffer", "writeFileSync">>
    ELSE <<"prepareRenderContext", "render", "renderContent", "toBuffer">>

\* The painting calls of the background rendered, on a canvas of its own.
BackgroundCalls ==
    BackgroundRender(chosen, NewContext(design.config.width, design.config.height),
                     design.config.width, design.config.height).ctx.calls

\* C26: in every run of generate and generateBuffer the steps taken are
\* design.prepareRenderContext, then background.render, then
\* design.renderContent, then the serialization of the canvas, each begun
\* when the one before has ended; nothing is painted on the new canvas
\* before background.render, whose calls are the first on it, the design's
\* follow, and the bytes serialized are of the canvas so painted; if the
\* data validation fails nothing is painted and nothing is written.
C26_StepsInOrder ==
    entry \in {"generate", "generateBuffer"} =>
        /\ Len(steps) <= Len(StepsInOrder)
        /\ steps = SubSeq(StepsInOrder, 1, Len(steps))
        /\ fpc = "preparing" => steps = <<"prepareRenderContext">>
        /\ fpc = "rendering" => Len(steps) = 2
        /\ fpc = "drawing" => Len(steps) = 3
        /\ fpc = "done" => steps = StepsInOrder
        /\ Len(steps) <= 2 => posterCtx.calls = <<>>
        /\ Len(steps) >= 3 =>
               /\ BackgroundCalls # <<>>
               /\ Len(posterCtx.calls) >= Len(BackgroundCalls)
               /\ SubSeq(posterCtx.calls, 1, Len(BackgroundCalls)) = BackgroundCalls
               /\ \A i \in 1 .. Len(posterCtx.calls) :
                      posterCtx.calls[i].op = "renderContent" <=> i > Len(BackgroundCalls)
        /\ fpc # "done" => outputFile = Null /\ returned = Null
        /\ fpc = "done" =>
               /\ Len(posterCtx.calls) = Len(BackgroundCalls) + 1
               /\ IF entry = "generate"
                  THEN outputFile = [png |-> posterCtx.calls] /\ returned = Null
                  ELSE returned = [png |-> posterCtx.calls] /\ outputFile = Null
        /\ (fpc = "threw" /\ generateError = "validateData") =>
               /\ steps = <<"prepareRenderContext">>
               /\ posterCtx.calls = <<>>
               /\ chosen = Null

\* generate has written a poster: the background and then the content.
C26_Witness ==
    /\ entry = "generate"
    /\ fpc = "done"
    /\ steps = StepsInOrder
    /\ Len(posterCtx.calls) >= 2
    /\ outputFile # Null

(***************************************************************************)
(* Claims on the decorative overlays of the song designs                   *)
(***************************************************************************)

\* The loads of decorative overlays made so far that failed.
FailedOverlays ==
    {k \in 1 .. Len(loads) :
        /\ loads[k].outcome # "drawn"
        /\ \E e \in 1 .. Len(Elements(contentDesign, songData)) :
              /\ Elements(contentDesign, songData)[e].name = loads[k].element
              /\ Elements(contentDesign, songData)[e].by
                     \in {"drawColoredSVG", "drawSpotifyCode"}}

PositionOf(name) ==
    CHOOSE e \in 1 .. Len(Elements(contentDesign, songData)) :
        Elements(contentDesign, songData)[e].name = name

\* C27: a failure to load a decorative overlay (the SVG icon or the Spotify
\* code) is caught inside the design: a warning is logged for it, nothing of
\* that element is painted, renderContent does not reject, and once it has
\* resolved every element after the overlay that did not itself fail to
\* load has been painted.
C27_OverlayFailureSkipsElement ==
    cpc # "idle" =>
        \A k \in FailedOverlays :
            /\ \E w \in 1 .. Len(warnings) : warnings[w].element = loads[k].element
            /\ \A c \in 1 .. Len(contentCalls) :
                  contentCalls[c].element # loads[k].element
            /\ cpc # "rejected" /\ contentError = Null
            /\ cpc = "done" =>
                  \A e \in PositionOf(loads[k].element) + 1
                               .. Len(Elements(contentDesign, songData)) :
                      \/ \E f \in FailedOverlays :
                            loads[f].element
                                = Elements(contentDesign, songData)[e].name
                      \/ \E c \in 1 .. Len(contentCalls) :
                            contentCalls[c].element
                                = Elements(contentDesign, songData)[e].name

(***************************************************************************)
(* Claims on the background fields of a Frameify instance                  *)
(***************************************************************************)

\* C28: after any sequence of withDesign, withBackground and
\* withAutoBackground calls, and during and after generate or
\* generateBuffer, automatic and explicit background are never both in
\* effect (useAutoBackground = true implies backgroundMode = null), and the
\* two fields are as the most recent of withBackground and
\* withAutoBackground left them (as constructed when neither was called):
\* withBackground leaves its mode and useAutoBackground = false,
\* withAutoBackground leaves null and true; no other call changes them.
C28_OneBackgroundInEffect ==
    fpc # "idle" =>
        /\ useAutoBackground => backgroundMode = Null
        /\ lastModeCall.call = "none" =>
              backgroundMode = Null /\ ~useAutoBackground
        /\ lastModeCall.call = "withBackground" =>
              backgroundMode = lastModeCall.mode /\ ~useAutoBackground
        /\ lastModeCall.call = "withAutoBackground" =>
              backgroundMode = Null /\ useAutoBackground

\* generateBuffer has returned on an instance on which withAutoBackground
\* and then withBackground were called.
C28_Witness ==
    /\ fpc = "done"
    /\ entry = "generateBuffer"
    /\ autoBackgroundOptions # <<>>
    /\ lastModeCall.call = "withBackground"
    /\ backgroundMode # Null

====
